---- MODULE Spec2Model ----
(***************************************************************************)
(* The Madagascar licence barcode decoder (MadagascarLicenseDecoder):      *)
(* input normaliser -> static-key XOR -> zlib inflate with fallbacks ->    *)
(* pipe-delimited record parser.                                           *)
(*                                                                         *)
(* Bytes are integers 0..255, a Uint8Array is a sequence of bytes, and a   *)
(* JavaScript string is a sequence of UTF-16 code units (integers).        *)
(***************************************************************************)
EXTENDS Integers, Sequences, FiniteSets, TLC

VARIABLES
  scannedData,       \* the text handed to decodeBarcodeData
  skipXor,           \* its second argument
  pakoBuild,         \* the pako library of the build: "pako1" or "pako2"
  pc,                \* the step the call is at: "step1".."step4", "returned"
  binaryData,        \* the local of step 1
  decryptedData,     \* the local of step 2
  decompressedData,  \* the local of step 3
  result,            \* what the call returned
  xorCalls,          \* the calls of staticDecrypt made by this call
  decompressCalls,   \* the calls of advancedDecompress made by this call
  parseCalls,        \* the calls of parseMadagascarFormat made by this call
  other,             \* a second call of decodeBarcodeData, or Idle
  component,         \* the scanner component that is mounted
  scanningRef,       \* scanningRef.current of the component
  loops,             \* the scan loops under way: awaiting a decode, or on a timer
  onScanLog,         \* the calls of the onScan prop, oldest first
  sessions,          \* how many times scanning was switched on
  appState,          \* App: the view shown
  scannerType,       \* App: the scanner chosen
  isScanning,        \* App: the state behind the isScanning prop
  decodedResult,     \* App: the result shown, or Null
  manualInput,       \* App: the text of the manual input box
  isDecoding         \* App: the loading screen is shown

\* the variables of a call of decodeBarcodeData, of a scanner component, of App
callVars == <<scannedData, skipXor, pakoBuild, pc, binaryData, decryptedData,
              decompressedData, result, xorCalls, decompressCalls, parseCalls, other>>

scannerVars == <<component, scanningRef, loops, onScanLog, sessions>>

appVars == <<appState, scannerType, decodedResult, manualInput, isDecoding>>

vars == <<callVars, scannerVars, appVars, isScanning>>

\* decodedResult before a decode and after handleClear
Null == [null |-> TRUE]

\* useState(...) of App, and the refs of a scanner that was never started
InitialApp ==
  /\ appState = "scanning"
  /\ scannerType = "image"
  /\ isScanning = FALSE
  /\ decodedResult = Null
  /\ manualInput = <<>>
  /\ isDecoding = FALSE

InitialScanner ==
  /\ scanningRef = FALSE
  /\ loops = {}
  /\ onScanLog = <<>>
  /\ sessions = 0

(***************************************************************************)
(* Characters.  Printable lists the ASCII characters 0x20..0x7E in order,  *)
(* so that a text literal can be written character by character (the      *)
(* double quote, the backslash and the backtick are spelled out).          *)
(***************************************************************************)
Printable ==
  << " ", "!", "dquote", "#", "$", "%", "&", "'", "(", ")", "*", "+", ",", "-", ".", "/",
     "0", "1", "2", "3", "4", "5", "6", "7", "8", "9", ":", ";", "<", "=", ">", "?",
     "@", "A", "B", "C", "D", "E", "F", "G", "H", "I", "J", "K", "L", "M", "N", "O",
     "P", "Q", "R", "S", "T", "U", "V", "W", "X", "Y", "Z", "[", "bslash", "]", "^", "_",
     "btick", "a", "b", "c", "d", "e", "f", "g", "h", "i", "j", "k", "l", "m", "n", "o",
     "p", "q", "r", "s", "t", "u", "v", "w", "x", "y", "z", "{", "|", "}", "~" >>

\* A sequence built as a function [i \in 1..n |-> e], held as a tuple (the
\* same value: TLC then computes each element once).
AsTuple(f) == f \o <<>>

Ord(ch) == 31 + (CHOOSE i \in DOMAIN Printable : Printable[i] = ch)

\* T(<<"A", "|", "1">>) is the string "A|1" as a sequence of code units.
T(chars) == AsTuple([i \in DOMAIN chars |-> Ord(chars[i])])

Pipe == Ord("|")
Comma == Ord(",")
Hyphen == Ord("-")
Equals == Ord("=")


Drop(s, n) == IF n >= Len(s) THEN <<>> ELSE SubSeq(s, n + 1, Len(s))
Take(s, n) == IF n >= Len(s) THEN s ELSE SubSeq(s, 1, n)

IsDigit(c) == c >= 48 /\ c <= 57
IsUpper(c) == c >= 65 /\ c <= 90
IsLower(c) == c >= 97 /\ c <= 122

\* ECMAScript WhiteSpace and LineTerminator: what \s matches and trim() strips.
IsSpace(c) ==
  \/ c \in {9, 10, 11, 12, 13, 32, 160, 5760, 8232, 8233, 8239, 8287, 12288, 65279}
  \/ (c >= 8192 /\ c <= 8202)

\* String.prototype.trim
RECURSIVE TrimStart(_)
TrimStart(s) == IF s # <<>> /\ IsSpace(Head(s)) THEN TrimStart(Tail(s)) ELSE s

RECURSIVE TrimEnd(_)
TrimEnd(s) ==
  IF s # <<>> /\ IsSpace(s[Len(s)]) THEN TrimEnd(SubSeq(s, 1, Len(s) - 1)) ELSE s

Trim(s) == TrimEnd(TrimStart(s))

\* replace of the whitespace class by nothing, and replace of NUL by nothing
StripSpaces(s) == SelectSeq(s, LAMBDA c : ~IsSpace(c))
StripNulls(s) == SelectSeq(s, LAMBDA c : c # 0)

\* s.indexOf(needle), 0-based, -1 when absent
IndexOf(s, needle) ==
  LET starts == {i \in 1..(Len(s) - Len(needle) + 1) :
                   \A j \in 1..Len(needle) : s[i + j - 1] = needle[j]}
  IN IF starts = {} THEN -1
     ELSE (CHOOSE i \in starts : \A k \in starts : i <= k) - 1

\* s.split(sep) for a one-character separator: always at least one piece.
\* One turn: the separator opens a new piece, another character joins the
\* last piece.
SplitStep(pieces, c, sep) ==
  IF c = sep THEN Append(pieces, <<>>)
  ELSE [pieces EXCEPT ![Len(pieces)] = Append(@, c)]

\* the turns i = lo..hi in order (the first half of the range, then, from
\* the pieces they leave, the second)
RECURSIVE SplitFrom(_, _, _, _, _)
SplitFrom(s, sep, lo, hi, pieces) ==
  IF lo > hi THEN pieces
  ELSE IF lo = hi THEN SplitStep(pieces, s[lo], sep)
  ELSE LET half == SplitFrom(s, sep, lo, (lo + hi) \div 2, pieces)
       IN IF Len(half) >= 0 THEN SplitFrom(s, sep, ((lo + hi) \div 2) + 1, hi, half)
          ELSE half

Split(s, sep) == SplitFrom(s, sep, 1, Len(s), << <<>> >>)

(***************************************************************************)
(* Bit operations on bytes.                                                *)
(***************************************************************************)
Bit(x, k) == (x \div (2 ^ k)) % 2

\* a ^ b on 8-bit values
Xor(a, b) ==
    ((Bit(a, 0) + Bit(b, 0)) % 2)
  + ((Bit(a, 1) + Bit(b, 1)) % 2) * 2
  + ((Bit(a, 2) + Bit(b, 2)) % 2) * 4
  + ((Bit(a, 3) + Bit(b, 3)) % 2) * 8
  + ((Bit(a, 4) + Bit(b, 4)) % 2) * 16
  + ((Bit(a, 5) + Bit(b, 5)) % 2) * 32
  + ((Bit(a, 6) + Bit(b, 6)) % 2) * 64
  + ((Bit(a, 7) + Bit(b, 7)) % 2) * 128

\* c & 0xFF, and a store into a Uint8Array
LowByte(c) == c % 256

(***************************************************************************)
(* Hexadecimal text.                                                       *)
(***************************************************************************)
IsHexDigit(c) == IsDigit(c) \/ (c >= 65 /\ c <= 70) \/ (c >= 97 /\ c <= 102)

HexVal(c) == IF IsDigit(c) THEN c - 48 ELSE IF c >= 97 THEN c - 87 ELSE c - 55

\* bytes[i / 2] = parseInt(cleanHex.substr(i, 2), 16): parseInt reads an optional
\* sign and the longest prefix of hex digits; NaN is stored as 0 and a negative
\* number modulo 256.
ParseHexByte(a, b) ==
  IF a = Ord("-") THEN (IF IsHexDigit(b) THEN (256 - HexVal(b)) % 256 ELSE 0)
  ELSE IF a = Ord("+") THEN (IF IsHexDigit(b) THEN HexVal(b) ELSE 0)
  ELSE IF ~IsHexDigit(a) THEN 0
  ELSE IF a = 48 /\ b \in {Ord("x"), Ord("X")} THEN 0
  ELSE IF IsHexDigit(b) THEN 16 * HexVal(a) + HexVal(b)
  ELSE HexVal(a)

HexDigits == T(<<"0", "1", "2", "3", "4", "5", "6", "7", "8", "9", "a", "b", "c", "d", "e", "f">>)

\* Array.from(bytes).map(b => b.toString(16).padStart(2, '0')).join('')
ToHex(bytes) ==
  AsTuple([k \in 1..(2 * Len(bytes)) |->
             LET b == bytes[(k + 1) \div 2]
             IN IF k % 2 = 1 THEN HexDigits[(b \div 16) + 1] ELSE HexDigits[(b % 16) + 1]])

(***************************************************************************)
(* Base64 (atob: the forgiving-base64 decode; btoa).                       *)
(***************************************************************************)
IsB64Char(c) == IsUpper(c) \/ IsLower(c) \/ IsDigit(c) \/ c = Ord("+") \/ c = Ord("/")

B64Val(c) ==
  IF IsUpper(c) THEN c - 65
  ELSE IF IsLower(c) THEN c - 71
  ELSE IF IsDigit(c) THEN c + 4
  ELSE IF c = Ord("+") THEN 62 ELSE 63

B64Char(v) ==
  IF v < 26 THEN v + 65
  ELSE IF v < 52 THEN v + 71
  ELSE IF v < 62 THEN v - 4
  ELSE IF v = 62 THEN Ord("+") ELSE Ord("/")

\* atob(s): [ok |-> FALSE] is the InvalidCharacterError.
Atob(s) ==
  LET d0 == SelectSeq(s, LAMBDA c : c \notin {9, 10, 12, 13, 32})
      n0 == Len(d0)
      d == IF n0 % 4 = 0 /\ n0 >= 2 /\ d0[n0] = Equals /\ d0[n0 - 1] = Equals
              THEN SubSeq(d0, 1, n0 - 2)
           ELSE IF n0 % 4 = 0 /\ n0 >= 1 /\ d0[n0] = Equals
              THEN SubSeq(d0, 1, n0 - 1)
           ELSE d0
      n == Len(d)
  IN IF n % 4 = 1 \/ \E i \in 1..n : ~IsB64Char(d[i])
       THEN [ok |-> FALSE, str |-> <<>>]
     ELSE [ok |-> TRUE,
           str |-> AsTuple([j \in 1..((n * 6) \div 8) |->
                      LET o == 8 * (j - 1)
                          g == o \div 6
                          r == o % 6
                      IN ((B64Val(d[g + 1]) * 64 + B64Val(d[g + 2])) \div (2 ^ (4 - r))) % 256])]

\* btoa of the binary string of a byte buffer
Btoa(bytes) ==
  LET n == Len(bytes)
      At(i) == IF i <= n THEN bytes[i] ELSE 0
  IN AsTuple([k \in 1..(4 * ((n + 2) \div 3)) |->
        LET c == (k - 1) \div 4
            p == (k - 1) % 4
            triple == At(3 * c + 1) * 65536 + At(3 * c + 2) * 256 + At(3 * c + 3)
        IN IF p = 2 /\ 3 * c + 2 > n THEN Equals
           ELSE IF p = 3 /\ 3 * c + 3 > n THEN Equals
           ELSE B64Char((triple \div (64 ^ (3 - p))) % 64)])

(***************************************************************************)
(* UTF-8 (TextEncoder.encode, TextDecoder.decode with the default          *)
(* options: replacement on error, a leading byte order mark dropped).      *)
(***************************************************************************)
IsHighSurrogate(c) == c >= 55296 /\ c <= 56319
IsLowSurrogate(c) == c >= 56320 /\ c <= 57343

Utf8OfCodePoint(cp) ==
  IF cp < 128 THEN <<cp>>
  ELSE IF cp < 2048 THEN <<192 + (cp \div 64), 128 + (cp % 64)>>
  ELSE IF cp < 65536 THEN <<224 + (cp \div 4096), 128 + ((cp \div 64) % 64), 128 + (cp % 64)>>
  ELSE <<240 + (cp \div 262144), 128 + ((cp \div 4096) % 64),
         128 + ((cp \div 64) % 64), 128 + (cp % 64)>>

RECURSIVE Utf8EncodeFrom(_, _)
Utf8EncodeFrom(s, i) ==
  IF i > Len(s) THEN <<>>
  ELSE IF IsHighSurrogate(s[i]) /\ i < Len(s) /\ IsLowSurrogate(s[i + 1])
    THEN Utf8OfCodePoint(65536 + (s[i] - 55296) * 1024 + (s[i + 1] - 56320))
         \o Utf8EncodeFrom(s, i + 2)
  ELSE IF IsHighSurrogate(s[i]) \/ IsLowSurrogate(s[i])
    THEN <<239, 191, 189>> \o Utf8EncodeFrom(s, i + 1)
  ELSE Utf8OfCodePoint(s[i]) \o Utf8EncodeFrom(s, i + 1)

TextEncode(s) ==
  IF \A i \in 1..Len(s) : s[i] < 128 THEN s ELSE Utf8EncodeFrom(s, 1)

CodeUnitsOf(cp) ==
  IF cp < 65536 THEN <<cp>>
  ELSE <<55296 + ((cp - 65536) \div 1024), 56320 + ((cp - 65536) % 1024)>>

\* The UTF-8 decoder: needed/seen continuation bytes, the code point so far
\* and the bounds of the next continuation byte.
RECURSIVE Utf8DecodeFrom(_, _, _, _, _, _, _)
Utf8DecodeFrom(b, i, needed, seen, cp, lower, upper) ==
  IF i > Len(b) THEN (IF needed # 0 THEN <<65533>> ELSE <<>>)
  ELSE IF needed = 0 THEN
    (IF b[i] < 128 THEN <<b[i]>> \o Utf8DecodeFrom(b, i + 1, 0, 0, 0, 128, 191)
     ELSE IF b[i] >= 194 /\ b[i] <= 223
       THEN Utf8DecodeFrom(b, i + 1, 1, 0, b[i] % 32, 128, 191)
     ELSE IF b[i] >= 224 /\ b[i] <= 239
       THEN Utf8DecodeFrom(b, i + 1, 2, 0, b[i] % 16,
                           IF b[i] = 224 THEN 160 ELSE 128,
                           IF b[i] = 237 THEN 159 ELSE 191)
     ELSE IF b[i] >= 240 /\ b[i] <= 244
       THEN Utf8DecodeFrom(b, i + 1, 3, 0, b[i] % 8,
                           IF b[i] = 240 THEN 144 ELSE 128,
                           IF b[i] = 244 THEN 143 ELSE 191)
     ELSE <<65533>> \o Utf8DecodeFrom(b, i + 1, 0, 0, 0, 128, 191))
  ELSE IF b[i] < lower \/ b[i] > upper
    THEN <<65533>> \o Utf8DecodeFrom(b, i, 0, 0, 0, 128, 191)
  ELSE IF seen + 1 = needed
    THEN CodeUnitsOf(cp * 64 + (b[i] % 64)) \o Utf8DecodeFrom(b, i + 1, 0, 0, 0, 128, 191)
  ELSE Utf8DecodeFrom(b, i + 1, needed, seen + 1, cp * 64 + (b[i] % 64), 128, 191)

TextDecode(b) ==
  IF \A i \in 1..Len(b) : b[i] < 128 THEN b
  ELSE LET body == IF Len(b) >= 3 /\ b[1] = 239 /\ b[2] = 187 /\ b[3] = 191
                     THEN Drop(b, 3) ELSE b
       IN Utf8DecodeFrom(body, 1, 0, 0, 0, 128, 191)

(***************************************************************************)
(* zlib, as pako's inflate and deflate treat it (RFC 1950, RFC 1951).      *)
(*                                                                         *)
(* The streams of the model hold stored blocks (BTYPE 00) only: Deflate    *)
(* writes one stored block, and InflateRun reads any number of them.  A    *)
(* Huffman-coded block is reported as kind "huffman" and a complete stream *)
(* followed by further bytes as kind "trailing"; no input of the model     *)
(* produces either (InflateInputsModelled).                                *)
(***************************************************************************)
\* the sum of w(i) * d[i] for i in lo..hi, by halving the range, where w(i) is
\* top - i when the sum is weighted and 1 when it is not
RECURSIVE SumRange(_, _, _, _, _)
SumRange(d, lo, hi, weighted, top) ==
  IF lo > hi THEN 0
  ELSE IF lo = hi THEN (IF weighted THEN (top - lo) * d[lo] ELSE d[lo])
  ELSE SumRange(d, lo, (lo + hi) \div 2, weighted, top)
       + SumRange(d, ((lo + hi) \div 2) + 1, hi, weighted, top)

\* Adler-32: a is 1 plus the sum of the bytes, b the sum of the values a takes,
\* both modulo 65521; the four bytes of the checksum, most significant first.
Adler32(d) ==
  LET n == Len(d)
      a == (1 + SumRange(d, 1, n, FALSE, 0)) % 65521
      b == (n + SumRange(d, 1, n, TRUE, n + 1)) % 65521
  IN <<b \div 256, b % 256, a \div 256, a % 256>>

\* deflate(data): header 78 9C, one final stored block, the checksum.
Deflate(d) ==
  LET n == Len(d)
  IN <<120, 156, 1, n % 256, n \div 256, (65535 - n) % 256, (65535 - n) \div 256>>
     \o d \o Adler32(d)

\* The blocks of a stream from position p (the block's header byte), with
\* the output so far.
RECURSIVE InflateBlocks(_, _, _)
InflateBlocks(buf, p, out) ==
  IF p > Len(buf) THEN [kind |-> "incomplete", out |-> out]
  ELSE LET final == buf[p] % 2
           btype == (buf[p] \div 2) % 4
       IN IF btype = 3 THEN [kind |-> "throw", out |-> out]
          ELSE IF btype # 0 THEN [kind |-> "huffman", out |-> out]
          ELSE IF p + 4 > Len(buf) THEN [kind |-> "incomplete", out |-> out]
          ELSE LET len == buf[p + 1] + 256 * buf[p + 2]
                   nlen == buf[p + 3] + 256 * buf[p + 4]
                   q == p + 5 + len
               IN IF len + nlen # 65535 THEN [kind |-> "throw", out |-> out]
                  ELSE IF q - 1 > Len(buf)
                    THEN [kind |-> "incomplete", out |-> out \o Drop(buf, p + 4)]
                  ELSE LET out2 == out \o SubSeq(buf, p + 5, q - 1)
                       IN IF final = 0 THEN InflateBlocks(buf, q, out2)
                          ELSE IF q + 3 > Len(buf) THEN [kind |-> "incomplete", out |-> out2]
                          ELSE IF SubSeq(buf, q, q + 3) # Adler32(out2)
                            THEN [kind |-> "throw", out |-> out2]
                          ELSE IF q + 3 < Len(buf) THEN [kind |-> "trailing", out |-> out2]
                          ELSE [kind |-> "ok", out |-> out2]

\* One run of zlib's inflate over the whole buffer: "ok" (the stream ended
\* with the buffer), "throw" (a data error), "incomplete" (the buffer ended
\* inside the stream).
InflateRun(buf) ==
  IF Len(buf) < 2 THEN [kind |-> "incomplete", out |-> <<>>]
  ELSE IF (buf[1] * 256 + buf[2]) % 31 # 0 THEN [kind |-> "throw", out |-> <<>>]
  ELSE IF buf[1] % 16 # 8 THEN [kind |-> "throw", out |-> <<>>]
  ELSE IF buf[1] \div 16 > 7 THEN [kind |-> "throw", out |-> <<>>]
  ELSE IF (buf[2] \div 32) % 2 = 1
    THEN (IF Len(buf) < 6 THEN [kind |-> "incomplete", out |-> <<>>]
          ELSE [kind |-> "throw", out |-> <<>>])
  ELSE InflateBlocks(buf, 3, <<>>)

\* inflate(data) of pako.  A data error throws.  On a buffer that ends
\* inside the stream the two major versions of the library differ and neither
\* throws: pako 1 returns the output so far (and throws on the empty
\* buffer), pako 2 returns undefined.  build is the library the application
\* was built with.
Inflate(buf, build) ==
  LET r == InflateRun(buf)
  IN IF r.kind = "ok" THEN [outcome |-> "value", bytes |-> r.out]
     ELSE IF r.kind = "incomplete" /\ build = "pako2" THEN [outcome |-> "undefined", bytes |-> <<>>]
     ELSE IF r.kind = "incomplete" /\ Len(buf) > 0 THEN [outcome |-> "value", bytes |-> r.out]
     ELSE [outcome |-> "throw", bytes |-> <<>>]

(***************************************************************************)
(* Stage 1: the input normaliser.                                          *)
(***************************************************************************)
\* /^[0-9a-fA-F]+$/.test(s)
HexRegexTest(s) == s # <<>> /\ \A i \in 1..Len(s) : IsHexDigit(s[i])

\* /^[A-Za-z0-9+/]*={0,2}$/.test(s)
Base64RegexTest(s) ==
  \E k \in 0..2 :
    /\ k <= Len(s)
    /\ \A i \in 1..Len(s) : IF i > Len(s) - k THEN s[i] = Equals ELSE IsB64Char(s[i])

hexToBinary(hexData) ==
  LET cleanHex == StripSpaces(Trim(hexData))
  IN IF Len(cleanHex) % 2 # 0
       THEN [ok |-> FALSE, bytes |-> <<>>,
             error |-> "Invalid hex string: odd number of characters"]
     ELSE [ok |-> TRUE,
           bytes |-> AsTuple([k \in 1..(Len(cleanHex) \div 2) |->
                                ParseHexByte(cleanHex[2 * k - 1], cleanHex[2 * k])]),
           error |-> ""]

\* Method 3: char codes to bytes
BinaryText(data) == AsTuple([i \in 1..Len(data) |-> LowByte(data[i])])

detectAndConvertToBinary(data) ==
  LET isHex == HexRegexTest(Trim(data)) /\ Len(data) % 2 = 0
      tryBase64 == Base64RegexTest(Trim(data)) /\ Len(data) % 4 = 0
      decoded == Atob(Trim(data))
  IN IF isHex THEN hexToBinary(data)
     ELSE IF tryBase64 /\ decoded.ok
       THEN [ok |-> TRUE, bytes |-> decoded.str, error |-> ""]
     ELSE [ok |-> TRUE, bytes |-> BinaryText(data), error |-> ""]

(***************************************************************************)
(* Stage 2: the static-key XOR.                                            *)
(***************************************************************************)
STATIC_ENCRYPTION_KEY ==
  T(<<"9", "3", "E", "9", "8", "9", "6", "9", "A", "D",
      "1", "1", "D", "2", "C", "8", "1", "6", "2", "D",
      "D", "9", "5", "D", "B", "3", "F", "6", "9">>)

\* staticDecrypt whose loop stops one byte early
staticDecryptStopsEarly(data) ==
  LET keyBytes == TextEncode(STATIC_ENCRYPTION_KEY)
  IN AsTuple([i \in 1..Len(data) |->
                IF i = Len(data) THEN 0
                ELSE Xor(data[i], keyBytes[((i - 1) % Len(keyBytes)) + 1])])

\* staticDecrypt whose key index is one ahead
staticDecryptKeyAhead(data) ==
  LET keyBytes == TextEncode(STATIC_ENCRYPTION_KEY)
  IN AsTuple([i \in 1..Len(data) |-> Xor(data[i], keyBytes[(i % Len(keyBytes)) + 1])])

staticDecrypt(data) ==
  LET keyBytes == TextEncode(STATIC_ENCRYPTION_KEY)
  IN AsTuple([i \in 1..Len(data) |-> Xor(data[i], keyBytes[((i - 1) % Len(keyBytes)) + 1])])

(***************************************************************************)
(* The 9-field record pattern.  Every group but the last is followed by a  *)
(* pipe that its character class excludes, so a match that starts at s is  *)
(* fixed by the pipes that follow s: group k runs from b[k] up to the next *)
(* pipe, and the ninth group is the one character after the eighth pipe.   *)
(***************************************************************************)
IMG_SEPARATOR == T(<<"|", "|", "I", "M", "G", "|", "|">>)

RECURSIVE NextPipe(_, _)
NextPipe(s, i) == IF i > Len(s) \/ s[i] = Pipe THEN i ELSE NextPipe(s, i + 1)

\* the starts of the nine groups of a match attempt at s (a start past the
\* end of the text when the pipes run out)
RECURSIVE GroupStarts(_, _, _)
GroupStarts(text, b, k) ==
  IF k = 9 \/ b > Len(text) THEN <<b>>
  ELSE <<b>> \o GroupStarts(text, NextPipe(text, b) + 1, k + 1)

\* the character classes of the pattern: [A-Z\s], \d, [A-Z\d], [A-Z,], [\d\-]
IsNameChar(c) == IsUpper(c) \/ IsSpace(c)
IsLicenceChar(c) == IsUpper(c) \/ IsDigit(c)
IsCodeChar(c) == IsUpper(c) \/ c = Comma
IsRangeChar(c) == IsDigit(c) \/ c = Hyphen

AllNameChars(g) == \A i \in 1..Len(g) : IsNameChar(g[i])
AllDigits(g) == \A i \in 1..Len(g) : IsDigit(g[i])
AllLicenceChars(g) == \A i \in 1..Len(g) : IsLicenceChar(g[i])
AllCodeChars(g) == \A i \in 1..Len(g) : IsCodeChar(g[i])
AllRangeChars(g) == \A i \in 1..Len(g) : IsRangeChar(g[i])

\* \d{8}-\d{8}
IsDatePair(g) ==
  /\ Len(g) = 17
  /\ g[9] = Hyphen
  /\ \A i \in (1..8) \cup (10..17) : IsDigit(g[i])

\* The match of the pattern that starts at position s, if there is one.
\* strictRange: the fifth group is \d{8}-\d{8} (the parser's pattern) and not
\* [\d\-]+ (the decompressor's).
RecordPatternAt(text, s, strictRange) ==
  LET b == GroupStarts(text, s, 1)
      G(k) == SubSeq(text, b[k], b[k + 1] - 2)
      ok == /\ IsNameChar(text[s])
            /\ Len(b) = 9
            /\ b[9] <= Len(text)
            /\ text[b[9]] \in {Ord("M"), Ord("F")}
            /\ AllNameChars(G(1))
            /\ G(2) # <<>> /\ AllDigits(G(2))
            /\ Len(G(3)) = 8 /\ AllDigits(G(3))
            /\ G(4) # <<>> /\ AllLicenceChars(G(4))
            /\ IF strictRange THEN IsDatePair(G(5))
               ELSE G(5) # <<>> /\ AllRangeChars(G(5))
            /\ AllCodeChars(G(6))
  IN IF ok
       THEN [found |-> TRUE,
             groups |-> AsTuple([k \in 1..9 |-> IF k = 9 THEN <<text[b[9]]>> ELSE G(k)]),
             whole |-> SubSeq(text, s, b[9])]
     ELSE [found |-> FALSE, groups |-> <<>>, whole |-> <<>>]

\* The leftmost match in the text: what String.prototype.match returns first.
FirstRecordMatch(text, strictRange) ==
  LET starts == {s \in 1..Len(text) : RecordPatternAt(text, s, strictRange).found}
  IN IF starts = {} THEN [found |-> FALSE, groups |-> <<>>, whole |-> <<>>]
     ELSE RecordPatternAt(text, CHOOSE s \in starts : \A t \in starts : s <= t, strictRange)

(***************************************************************************)
(* Stage 3: decompression with its fallbacks.                              *)
(***************************************************************************)
MaxSkipBytes == 50
MinReadableLength == 20
ZlibHeaderByte == 120

IsReadableByte(byte) == (byte >= 32 /\ byte <= 126) \/ byte = 9 \/ byte = 10 \/ byte = 13

\* the body of the loop with a separator at the start of the text too
ReadableStepAlways(readableText, byte) ==
  IF IsReadableByte(byte) THEN Append(readableText, byte)
  ELSE IF readableText = <<>> \/ readableText[Len(readableText)] # Pipe
    THEN Append(readableText, Pipe)
  ELSE readableText

\* Method 2, the body of the loop: readableText after the byte data[i]
ReadableStep(readableText, byte) ==
  IF IsReadableByte(byte) THEN Append(readableText, byte)
  ELSE IF Len(readableText) > 0 /\ readableText[Len(readableText)] # Pipe
    THEN Append(readableText, Pipe)
  ELSE readableText

\* Method 2, the loop: the turns i = lo..hi in order, from readableText (the
\* turns of the first half of the range, then, from the text they leave,
\* those of the second half)
RECURSIVE ReadableFrom(_, _, _, _)
ReadableFrom(data, lo, hi, readableText) ==
  IF lo > hi THEN readableText
  ELSE IF lo = hi THEN ReadableStep(readableText, data[lo])
  ELSE LET half == ReadableFrom(data, lo, (lo + hi) \div 2, readableText)
       IN IF Len(half) >= 0 THEN ReadableFrom(data, ((lo + hi) \div 2) + 1, hi, half)
          ELSE half

ReadableText(data) == ReadableFrom(data, 1, Len(data), <<>>)

\* method 3 that hands on the match alone, marker or not
PatternFallbackMatchOnly(readableText) ==
  LET m == FirstRecordMatch(readableText, FALSE)
  IN IF ~m.found THEN [found |-> FALSE, bytes |-> <<>>]
     ELSE [found |-> TRUE, bytes |-> TextEncode(m.whole)]

\* Method 3: the pipe-delimited pattern in the readable text
PatternFallback(readableText) ==
  LET m == FirstRecordMatch(readableText, FALSE)
  IN IF ~m.found THEN [found |-> FALSE, bytes |-> <<>>]
     ELSE IF IndexOf(readableText, IMG_SEPARATOR) # -1
       THEN [found |-> TRUE, bytes |-> TextEncode(readableText)]
     ELSE [found |-> TRUE, bytes |-> TextEncode(m.whole)]

\* Method 4: the number of turns of the skip loop
SkipLoopTurns(data) == IF MaxSkipBytes < Len(data) THEN MaxSkipBytes ELSE Len(data)

\* the skip offsets of a loop that runs to the end of the buffer
PartialOffsetsUnbounded(data, build) ==
  {skipBytes \in 0..(Len(data) - 1) :
     /\ data[skipBytes + 1] = ZlibHeaderByte
     /\ Inflate(Drop(data, skipBytes), build).outcome # "throw"}

\* Method 4: the skip offsets whose inflate does not throw
PartialOffsets(data, build) ==
  {skipBytes \in 0..(SkipLoopTurns(data) - 1) :
     /\ data[skipBytes + 1] = ZlibHeaderByte
     /\ Inflate(Drop(data, skipBytes), build).outcome # "throw"}

\* advancedDecompress that tries the skip offsets before the pattern
advancedDecompressOffsetsFirst(data, build) ==
  LET standard == Inflate(data, build)
      readableText == ReadableText(data)
      pattern == PatternFallback(readableText)
      offsets == PartialOffsets(data, build)
      first == CHOOSE k \in offsets : \A j \in offsets : k <= j
  IN IF standard.outcome # "throw"
       THEN [outcome |-> standard.outcome, bytes |-> standard.bytes, method |-> "standard"]
     ELSE IF offsets # {}
       THEN [outcome |-> Inflate(Drop(data, first), build).outcome,
             bytes |-> Inflate(Drop(data, first), build).bytes, method |-> "partial"]
     ELSE IF pattern.found
       THEN [outcome |-> "value", bytes |-> pattern.bytes, method |-> "pattern"]
     ELSE IF Len(readableText) > MinReadableLength
       THEN [outcome |-> "value", bytes |-> TextEncode(readableText), method |-> "readable"]
     ELSE [outcome |-> "throw", bytes |-> <<>>, method |-> "none"]

\* advancedDecompress that accepts a readable text of 20 characters
advancedDecompressFromTwenty(data, build) ==
  LET standard == Inflate(data, build)
      readableText == ReadableText(data)
      pattern == PatternFallback(readableText)
      offsets == PartialOffsets(data, build)
      first == CHOOSE k \in offsets : \A j \in offsets : k <= j
  IN IF standard.outcome # "throw"
       THEN [outcome |-> standard.outcome, bytes |-> standard.bytes, method |-> "standard"]
     ELSE IF pattern.found
       THEN [outcome |-> "value", bytes |-> pattern.bytes, method |-> "pattern"]
     ELSE IF offsets # {}
       THEN [outcome |-> Inflate(Drop(data, first), build).outcome,
             bytes |-> Inflate(Drop(data, first), build).bytes, method |-> "partial"]
     ELSE IF Len(readableText) >= MinReadableLength
       THEN [outcome |-> "value", bytes |-> TextEncode(readableText), method |-> "readable"]
     ELSE [outcome |-> "throw", bytes |-> <<>>, method |-> "none"]

\* outcome "value": bytes is the buffer returned; "undefined": inflate returned
\* undefined and so does advancedDecompress; "throw": "All decompression
\* methods failed".  method is the strategy that produced the outcome.
advancedDecompress(data, build) ==
  LET standard == Inflate(data, build)
      readableText == ReadableText(data)
      pattern == PatternFallback(readableText)
      offsets == PartialOffsets(data, build)
      first == CHOOSE k \in offsets : \A j \in offsets : k <= j
  IN IF standard.outcome # "throw"
       THEN [outcome |-> standard.outcome, bytes |-> standard.bytes, method |-> "standard"]
     ELSE IF pattern.found
       THEN [outcome |-> "value", bytes |-> pattern.bytes, method |-> "pattern"]
     ELSE IF offsets # {}
       THEN [outcome |-> Inflate(Drop(data, first), build).outcome,
             bytes |-> Inflate(Drop(data, first), build).bytes, method |-> "partial"]
     ELSE IF Len(readableText) > MinReadableLength
       THEN [outcome |-> "value", bytes |-> TextEncode(readableText), method |-> "readable"]
     ELSE [outcome |-> "throw", bytes |-> <<>>, method |-> "none"]

(***************************************************************************)
(* Stage 4: the record parser.                                             *)
(***************************************************************************)
MinFields == 5
NumFields == 9

\* formatDate with the month cut one character short
formatDateShortMonth(dateStr) ==
  IF dateStr = <<>> \/ Len(dateStr) # 8 THEN dateStr
  ELSE SubSeq(dateStr, 1, 4) \o <<Hyphen>> \o SubSeq(dateStr, 5, 5) \o <<Hyphen>>
       \o SubSeq(dateStr, 7, 8)

\* formatDate that gives nothing for a token it cannot format
formatDateBlanksOthers(dateStr) ==
  IF dateStr = <<>> \/ Len(dateStr) # 8 THEN <<>>
  ELSE SubSeq(dateStr, 1, 4) \o <<Hyphen>> \o SubSeq(dateStr, 5, 6) \o <<Hyphen>>
       \o SubSeq(dateStr, 7, 8)

formatDate(dateStr) ==
  IF dateStr = <<>> \/ Len(dateStr) # 8 THEN dateStr
  ELSE SubSeq(dateStr, 1, 4) \o <<Hyphen>> \o SubSeq(dateStr, 5, 6) \o <<Hyphen>>
       \o SubSeq(dateStr, 7, 8)

\* findBytes(haystack, needle): 0-based, -1 when absent
findBytes(haystack, needle) == IndexOf(haystack, needle)

arrayBufferToBase64(buffer) == Btoa(buffer)

\* the image split: the licence bytes, the image bytes, and whether the
\* separator was found
\* the split that cuts the image off without reporting one
ImageSplitUnflagged(buffer) ==
  LET decompressedText == TextDecode(buffer)
      textImageSeparatorIndex == IndexOf(decompressedText, IMG_SEPARATOR)
  IN IF textImageSeparatorIndex # -1
       THEN [hasImage |-> FALSE,
             licenseDataBytes |-> TextEncode(Take(decompressedText, textImageSeparatorIndex)),
             imageBytes |-> BinaryText(Drop(decompressedText, textImageSeparatorIndex + 7))]
     ELSE [hasImage |-> FALSE, licenseDataBytes |-> buffer, imageBytes |-> <<>>]

ImageSplit(buffer) ==
  LET decompressedText == TextDecode(buffer)
      textImageSeparatorIndex == IndexOf(decompressedText, IMG_SEPARATOR)
      imageSeparator == TextEncode(IMG_SEPARATOR)
      binaryImageSeparatorIndex == findBytes(buffer, imageSeparator)
  IN IF textImageSeparatorIndex # -1
       THEN [hasImage |-> TRUE,
             licenseDataBytes |-> TextEncode(Take(decompressedText, textImageSeparatorIndex)),
             imageBytes |-> BinaryText(Drop(decompressedText, textImageSeparatorIndex + 7))]
     ELSE IF binaryImageSeparatorIndex # -1
       THEN [hasImage |-> TRUE,
             licenseDataBytes |-> Take(buffer, binaryImageSeparatorIndex),
             imageBytes |-> Drop(buffer, binaryImageSeparatorIndex + Len(imageSeparator))]
     ELSE [hasImage |-> FALSE, licenseDataBytes |-> buffer, imageBytes |-> <<>>]

\* cleanedStr: the licence text without null bytes, trimmed
CleanedStr(licenseDataBytes) == Trim(StripNulls(TextDecode(licenseDataBytes)))

\* padding that puts the empty fields first
PadFieldsInFront(fields) ==
  IF Len(fields) >= NumFields THEN fields
  ELSE [k \in 1..(NumFields - Len(fields)) |-> <<>>] \o fields

\* while (fields.length < 9) fields.push('')
PadFields(fields) ==
  IF Len(fields) >= NumFields THEN fields
  ELSE fields \o [k \in 1..(NumFields - Len(fields)) |-> <<>>]

\* ExtractFields without the check of the field count
ExtractFieldsUnchecked(cleanedStr) ==
  LET match == FirstRecordMatch(cleanedStr, TRUE)
      split == Split(cleanedStr, Pipe)
  IN IF match.found THEN [ok |-> TRUE, fields |-> match.groups, count |-> 9]
     ELSE [ok |-> TRUE, fields |-> PadFields(split), count |-> Len(split)]

\* field extraction that asks the split for all nine fields
ExtractFieldsNeedsNine(cleanedStr) ==
  LET match == FirstRecordMatch(cleanedStr, TRUE)
      split == Split(cleanedStr, Pipe)
  IN IF match.found THEN [ok |-> TRUE, fields |-> match.groups, count |-> 9]
     ELSE IF Len(split) < NumFields THEN [ok |-> FALSE, fields |-> <<>>, count |-> Len(split)]
     ELSE [ok |-> TRUE, fields |-> split, count |-> Len(split)]

\* field extraction that splits whenever the split gives 5 fields or more
ExtractFieldsSplitFirst(cleanedStr) ==
  LET match == FirstRecordMatch(cleanedStr, TRUE)
      split == Split(cleanedStr, Pipe)
  IN IF Len(split) >= MinFields
       THEN [ok |-> TRUE, fields |-> PadFields(split), count |-> Len(split)]
     ELSE IF match.found THEN [ok |-> TRUE, fields |-> match.groups, count |-> 9]
     ELSE [ok |-> FALSE, fields |-> <<>>, count |-> Len(split)]

\* the fields of the licence text: the groups of the pattern, or the split
\* padded to nine; ok is FALSE when the split gives fewer than 5 fields.
ExtractFields(cleanedStr) ==
  LET match == FirstRecordMatch(cleanedStr, TRUE)
      split == Split(cleanedStr, Pipe)
  IN IF match.found THEN [ok |-> TRUE, fields |-> match.groups, count |-> 9]
     ELSE IF Len(split) < MinFields THEN [ok |-> FALSE, fields |-> <<>>, count |-> Len(split)]
     ELSE [ok |-> TRUE, fields |-> PadFields(split), count |-> Len(split)]

\* fields[k] ? fields[k].split(',') : []
SplitList(field) == IF field = <<>> THEN <<>> ELSE Split(field, Comma)

BuildLicenseData(fields) ==
  LET validDates == IF fields[5] # <<>> THEN Split(fields[5], Hyphen) ELSE << <<>>, <<>> >>
      validFrom == validDates[1]
      validTo == IF Len(validDates) >= 2 THEN validDates[2] ELSE <<>>
  IN [person_name |-> fields[1],
      id_number |-> fields[2],
      date_of_birth |-> formatDate(fields[3]),
      license_number |-> fields[4],
      valid_from |-> formatDate(validFrom),
      valid_to |-> formatDate(validTo),
      license_codes |-> SplitList(fields[6]),
      vehicle_restrictions |-> SplitList(fields[7]),
      driver_restrictions |-> SplitList(fields[8]),
      sex |-> fields[9],
      country |-> "MG",
      format_version |-> "standardized_madagascar_v5"]

\* the image format from the leading bytes
ImageFormat(imageBytes) ==
  IF Len(imageBytes) >= 3 /\ imageBytes[1] = 255 /\ imageBytes[2] = 216 /\ imageBytes[3] = 255
    THEN "JPEG"
  ELSE IF /\ Len(imageBytes) >= 4
          /\ imageBytes[1] = 137 /\ imageBytes[2] = 80
          /\ imageBytes[3] = 78 /\ imageBytes[4] = 71
    THEN "PNG"
  ELSE IF Take(TextDecode(Take(imageBytes, 10)), 4) = T(<<"J", "F", "I", "F">>)
    THEN "JPEG"
  ELSE "Unknown"

\* ok |-> FALSE: the parser throws "Failed to parse license data: ..."
parseMadagascarFormat(buffer) ==
  LET image == ImageSplit(buffer)
      extracted == ExtractFields(CleanedStr(image.licenseDataBytes))
      licenseData == BuildLicenseData(extracted.fields)
      base == [success |-> TRUE,
               license_data |-> licenseData,
               has_image |-> image.hasImage,
               image_size_bytes |-> Len(image.imageBytes),
               total_payload_size |-> Len(buffer),
               decoding_format |-> "pipe_delimited_xor_encrypted",
               message |-> [text |-> "Madagascar license decoded successfully: ",
                            arg |-> licenseData.license_number]]
  IN IF ~extracted.ok
       THEN [ok |-> FALSE,
             error |-> [text |-> "Failed to parse license data: Error: Expected at least 5 fields in license data, got ",
                        arg |-> extracted.count]]
     ELSE IF image.hasImage /\ Len(image.imageBytes) > 0
       THEN [ok |-> TRUE,
             result |-> base @@ [image_base64 |-> arrayBufferToBase64(image.imageBytes),
                                 image_format |-> ImageFormat(image.imageBytes)]]
     ELSE [ok |-> TRUE, result |-> base]

(***************************************************************************)
(* decodeBarcodeData: the four stages, and the catch that turns whatever   *)
(* was thrown into a failure result.                                       *)
(***************************************************************************)
NoLicenseData == [k \in {} |-> <<>>]

FailureResult(error) ==
  [success |-> FALSE,
   license_data |-> NoLicenseData,
   has_image |-> FALSE,
   image_size_bytes |-> 0,
   total_payload_size |-> 0,
   decoding_format |-> "pipe_delimited_xor_encrypted",
   message |-> [text |-> "Failed to decode barcode data", arg |-> <<>>],
   error |-> error]

HexError == [text |-> "Invalid hex string: odd number of characters", arg |-> 0]
DecompressError == [text |-> "All decompression methods failed", arg |-> 0]
\* decompressedData.length of undefined
UndefinedError == [text |-> "TypeError: Cannot read properties of undefined (reading 'length')", arg |-> 0]

decodeBarcodeData(data, skip, build) ==
  LET binary == detectAndConvertToBinary(data)
      decrypted == IF skip THEN binary.bytes ELSE staticDecrypt(binary.bytes)
      decompressed == advancedDecompress(decrypted, build)
      parsed == parseMadagascarFormat(decompressed.bytes)
  IN IF ~binary.ok THEN FailureResult(HexError)
     ELSE IF decompressed.outcome = "throw" THEN FailureResult(DecompressError)
     ELSE IF decompressed.outcome = "undefined" THEN FailureResult(UndefinedError)
     ELSE IF ~parsed.ok THEN FailureResult(parsed.error)
     ELSE parsed.result

(***************************************************************************)
(* The inputs of the model.                                                *)
(***************************************************************************)
\* the only part of the encoder the repository holds (testWithKnownSample):
\* compress, XOR with the key, write as hex
EncodeSample(plaintext) == ToHex(staticDecrypt(Deflate(TextEncode(plaintext))))

\* the same payload without the XOR
EncodePlain(plaintext) == ToHex(Deflate(TextEncode(plaintext)))

KnownSample ==
  T(<<"J", "o", "h", "n", " ", "D", "o", "e", "|",
      "1", "2", "3", "4", "5", "6", "7", "8", "9", "0", "1", "2", "|",
      "1", "9", "8", "0", "0", "1", "1", "5", "|",
      "L", "I", "C", "1", "2", "3", "4", "5", "6", "7", "8", "9", "0", "|",
      "2", "0", "2", "0", "0", "1", "0", "1", "-", "2", "0", "2", "5", "0", "1", "0", "1", "|",
      "B", ",", "C", "|", "N", "o", "n", "e", "|", "N", "o", "n", "e", "|", "M">>)

\* Records of the 9-field schema: <<name, id, dob, licence, from, to, codes,
\* vehicle restrictions, driver restrictions, sex>>, the dates as 8 digits.
Records ==
  LET RecNames == {T(<<"A">>), T(<<"J", "o">>), T(<<"a", "B">>), T(<<"A", " ", "B">>)}
      RecIds == {T(<<"1", "2">>)}
      RecBirths == {T(<<"1", "9", "8", "0", "0", "1", "1", "5">>)}
      RecLicences == {T(<<"L", "1">>)}
      RecFroms == {T(<<"2", "0", "2", "0", "0", "1", "0", "1">>)}
      RecTos == {T(<<"2", "0", "2", "5", "0", "1", "0", "1">>)}
      RecCodes == {<<>>, T(<<"B", ",", "C">>)}
      RecVehicle == {<<>>, T(<<"N", "o">>)}
      RecDriver == {<<>>}
      RecSexes == {T(<<"M">>), T(<<"F">>), T(<<"X">>)}
  IN RecNames \X RecIds \X RecBirths \X RecLicences \X RecFroms \X RecTos
       \X RecCodes \X RecVehicle \X RecDriver \X RecSexes

\* name|id|dob8|licnum|validFrom8-validTo8|codes|vehRestr|drvRestr|sex
Serialize(R) ==
  R[1] \o <<Pipe>> \o R[2] \o <<Pipe>> \o R[3] \o <<Pipe>> \o R[4] \o <<Pipe>>
    \o R[5] \o <<Hyphen>> \o R[6] \o <<Pipe>> \o R[7] \o <<Pipe>> \o R[8] \o <<Pipe>>
    \o R[9] \o <<Pipe>> \o R[10]

RecordInputs ==
  {EncodeSample(Serialize(R)) : R \in Records} \cup {EncodePlain(Serialize(R)) : R \in Records}

\* Texts for the normaliser: every text of at most MaxTextLen characters over
\* a space, a hex digit, a base64 character that is no hex digit, and '='; and
\* texts with code units above 255 (321 is U+0141, 65279 is U+FEFF, which
\* trim() strips).
MaxTextLen == 4

NormAlphabet == {Ord(" "), Ord("a"), Ord("g"), Equals}

ShortTexts == UNION {[1..n -> NormAlphabet] : n \in 0..MaxTextLen}

WideTexts == {<<321, 97>>, <<65279, 97, 97, 97>>, <<97, 97, 8232>>, <<376, 412>>}

\* Buffers for the decompression fallbacks, handed over as hex.
MaxGarbage == 2

Garbage(g) == AsTuple([i \in 1..g |-> 1])
Fill(n) == AsTuple([i \in 1..n |-> Ord("z")])

ShortText == T(<<"a", "|", "b">>)
FiveText == T(<<"a", "|", "b", "|", "c", "|", "d", "|", "e">>)
PatternText ==
  T(<<"A", "|", "1", "|", "1", "9", "8", "0", "0", "1", "1", "5", "|", "L", "|",
      "2", "0", "2", "0", "0", "1", "0", "1", "-", "2", "0", "2", "5", "0", "1", "0", "1", "|",
      "B", "|", "|", "|", "M">>)
\* the record after two characters the pattern does not take
PrefixedText == T(<<"a", "b">>) \o PatternText
JpegBytes == <<255, 216, 255, 224>>

\* a zlib stream after 0..MaxGarbage bytes that belong to no stream
StreamBuffers ==
  {Garbage(g) \o Deflate(t) : g \in 0..MaxGarbage, t \in {ShortText, FiveText, PatternText, PrefixedText}}

\* a stream cut short, alone and after one byte of garbage
CutBuffers ==
  LET whole == Deflate(FiveText)
  IN {Take(whole, Len(whole) - 2), <<1>> \o Take(whole, Len(whole) - 2), <<120>>}

\* printable text around the length the last fallback asks for, with five
\* fields and with one
ReadableBuffers ==
  LET lengths == (MinReadableLength - 1)..(MinReadableLength + 2)
  IN {Fill(n) : n \in lengths}
       \cup {SubSeq(FiveText, 1, 8) \o Fill(n - 8) : n \in lengths}

\* a record and an image after the separator, raw and compressed
ImageBuffers ==
  {<<1>> \o PatternText \o IMG_SEPARATOR \o JpegBytes,
   <<1>> \o PrefixedText \o IMG_SEPARATOR \o T(<<"J", "F">>),
   Deflate(PatternText \o IMG_SEPARATOR \o T(<<"J", "F", "I", "F">>))}

\* unreadable bytes at the start, in the middle and after a pipe of a text
\* long enough for the last fallback
GappedBuffers ==
  {<<1>> \o Fill(MinReadableLength + 1),
   <<1, 2>> \o Fill(MinReadableLength + 1),
   Fill(10) \o <<1, 2>> \o Fill(11),
   Fill(10) \o <<Pipe, 1>> \o Fill(11),
   Fill(10) \o <<1>> \o Fill(5) \o <<2, 3>> \o Fill(6) \o <<4>>,
   Fill(5) \o <<1>> \o Fill(5) \o <<2>> \o Fill(5) \o <<3>> \o Fill(5) \o <<4>> \o Fill(1)}

\* a stream behind as many bytes as the skip loop covers, one fewer and one
\* more; a stream behind a zlib header byte that starts no stream; and a
\* stream whose header is 58 85 (a smaller window) and not 78 9C
FarBuffers ==
  {Garbage(g) \o Deflate(FiveText) : g \in (MaxSkipBytes - 1)..(MaxSkipBytes + 1)}
    \cup {<<ZlibHeaderByte, 1>> \o Deflate(FiveText),
          <<1, 88, 133>> \o Drop(Deflate(FiveText), 2)}

FallbackBuffers ==
  StreamBuffers \cup CutBuffers \cup ReadableBuffers \cup ImageBuffers
    \cup GappedBuffers \cup FarBuffers

BufferInputs ==
  {ToHex(b) : b \in FallbackBuffers} \cup {ToHex(staticDecrypt(b)) : b \in FallbackBuffers}

\* Licence texts for the parser: name|id|birth|licence|range and none to five
\* fields more, the date tokens of every kind (empty, short, 8 digits, 8
\* characters that are not digits, long).
BirthTokens ==
  {<<>>, T(<<"1", "9", "8", "0">>), T(<<"1", "9", "8", "0", "0", "1", "1", "5">>),
   T(<<"A", "B", "C", "D", "E", "F", "G", "H">>),
   T(<<"1", "9", "8", "0", "0", "1", "1", "5", "1">>)}

RangeTokens ==
  {<<>>, T(<<"2", "0", "2", "0", "0", "1", "0", "1">>),
   T(<<"2", "0", "2", "0", "0", "1", "0", "1", "-", "2", "0", "2", "5", "0", "1", "0", "1">>),
   T(<<"2", "0", "2", "0", "-", "1">>),
   T(<<"2", "0", "2", "0", "0", "1", "0", "1", "-", "X">>),
   T(<<"-", "A", "B", "C", "D", "E", "F", "G", "H">>)}

FieldTails ==
  {<<>>, T(<<"|", "B", ",", "C">>), T(<<"|", "B", "|", "v">>), T(<<"|", "B", "|", "v", "|", "d">>),
   T(<<"|", "B", "|", "v", "|", "d", "|", "M">>),
   T(<<"|", "B", "|", "v", "|", "d", "|", "M", "|", "y">>)}

LicenceTexts ==
  {T(<<"a", "|", "1", "|">>) \o birth \o T(<<"|", "L", "|">>) \o range \o tail :
     birth \in BirthTokens, range \in RangeTokens, tail \in FieldTails}

\* the record of the image scenario and the images put behind the marker
ImageRecord ==
  T(<<"A", "|", "B", "|", "C", "|", "D", "|", "E", "|", "F", "|", "G", "|", "H", "|", "M">>)

ImageSamples ==
  {<<>>, <<255, 216, 255>>, <<255, 216, 255, 224, 0, 16>>, <<137, 80, 78, 71>>,
   T(<<"J", "F", "I", "F">>), <<0, 1, 127>>, <<195, 169>>, <<128>>}

ImageTexts == {ImageRecord \o IMG_SEPARATOR \o image : image \in ImageSamples}

\* the parser's texts reach it compressed; they are buffers, not strings
\* a record with text before and behind it
WrappedText == PrefixedText \o T(<<"y", "z">>)

ParserInputs == {ToHex(Deflate(t)) : t \in LicenceTexts \cup ImageTexts \cup {WrappedText}}

Inputs ==
  {EncodeSample(KnownSample), EncodePlain(KnownSample)}
    \cup RecordInputs \cup ShortTexts \cup WideTexts \cup BufferInputs \cup ParserInputs

(***************************************************************************)
(* One call of decodeBarcodeData, step by step.                            *)
(***************************************************************************)
NoResult == [pending |-> TRUE]

\* no second call is under way
Idle == [pc |-> "idle"]

Init ==
  /\ scannedData \in Inputs
  /\ skipXor \in BOOLEAN
  /\ pakoBuild \in {"pako1", "pako2"}
  /\ pc = "step1"
  /\ binaryData = <<>>
  /\ decryptedData = <<>>
  /\ decompressedData = <<>>
  /\ result = NoResult
  /\ xorCalls = 0
  /\ decompressCalls = 0
  /\ parseCalls = 0
  /\ other = Idle
  /\ component = "ImageScanner"
  /\ InitialScanner
  /\ InitialApp

\* the catch block: whatever a step threw becomes the failure result
Catch(error) ==
  /\ result' = FailureResult(error)
  /\ pc' = "returned"

\* Step 1: const binaryData = this.detectAndConvertToBinary(scannedData)
Normalize ==
  /\ pc = "step1"
  /\ detectAndConvertToBinary(scannedData).ok
  /\ binaryData' = detectAndConvertToBinary(scannedData).bytes
  /\ pc' = "step2"
  /\ UNCHANGED <<scannerVars, appVars, isScanning, other, parseCalls, scannedData, skipXor, pakoBuild, decryptedData, decompressedData,
                 result, xorCalls, decompressCalls>>

NormalizeThrows ==
  /\ pc = "step1"
  /\ ~detectAndConvertToBinary(scannedData).ok
  /\ Catch(HexError)
  /\ UNCHANGED <<scannerVars, appVars, isScanning, other, parseCalls, scannedData, skipXor, pakoBuild, binaryData, decryptedData,
                 decompressedData, xorCalls, decompressCalls>>

\* Step 2: const decryptedData = skipXor ? binaryData : this.staticDecrypt(binaryData)
Decrypt ==
  /\ pc = "step2"
  /\ ~skipXor
  /\ decryptedData' = staticDecrypt(binaryData)
  /\ xorCalls' = xorCalls + 1
  /\ pc' = "step3"
  /\ UNCHANGED <<scannerVars, appVars, isScanning, other, parseCalls, scannedData, skipXor, pakoBuild, binaryData, decompressedData,
                 result, decompressCalls>>

\* step 2 applying the cipher although skipXor is set
SkipDecryptApplies ==
  /\ pc = "step2"
  /\ skipXor
  /\ decryptedData' = staticDecrypt(binaryData)
  /\ xorCalls' = xorCalls + 1
  /\ pc' = "step3"
  /\ UNCHANGED <<scannerVars, appVars, isScanning, other, parseCalls, scannedData, skipXor, pakoBuild, binaryData, decompressedData,
                 result, decompressCalls>>

SkipDecrypt ==
  /\ pc = "step2"
  /\ skipXor
  /\ decryptedData' = binaryData
  /\ pc' = "step3"
  /\ UNCHANGED <<scannerVars, appVars, isScanning, other, parseCalls, scannedData, skipXor, pakoBuild, binaryData, decompressedData,
                 result, xorCalls, decompressCalls>>

\* Step 3: const decompressedData = this.advancedDecompress(decryptedData)
Decompress ==
  /\ pc = "step3"
  /\ advancedDecompress(decryptedData, pakoBuild).outcome = "value"
  /\ decompressedData' = advancedDecompress(decryptedData, pakoBuild).bytes
  /\ decompressCalls' = decompressCalls + 1
  /\ pc' = "step4"
  /\ UNCHANGED <<scannerVars, appVars, isScanning, other, parseCalls, scannedData, skipXor, pakoBuild, binaryData, decryptedData,
                 result, xorCalls>>

\* step 3 that, when every method failed, hands the buffer on as it is
DecompressThrowsGoesOn ==
  /\ pc = "step3"
  /\ advancedDecompress(decryptedData, pakoBuild).outcome = "throw"
  /\ decompressedData' = decryptedData
  /\ decompressCalls' = decompressCalls + 1
  /\ pc' = "step4"
  /\ UNCHANGED <<scannerVars, appVars, isScanning, other, parseCalls, scannedData, skipXor, pakoBuild, binaryData, decryptedData,
                 result, xorCalls>>

DecompressThrows ==
  /\ pc = "step3"
  /\ advancedDecompress(decryptedData, pakoBuild).outcome = "throw"
  /\ decompressCalls' = decompressCalls + 1
  /\ Catch(DecompressError)
  /\ UNCHANGED <<scannerVars, appVars, isScanning, other, parseCalls, scannedData, skipXor, pakoBuild, binaryData, decryptedData,
                 decompressedData, xorCalls>>

\* advancedDecompress returned the undefined that inflate gave it, and the
\* read of decompressedData.length in the log line of step 3 throws
DecompressUndefined ==
  /\ pc = "step3"
  /\ advancedDecompress(decryptedData, pakoBuild).outcome = "undefined"
  /\ decompressCalls' = decompressCalls + 1
  /\ Catch(UndefinedError)
  /\ UNCHANGED <<scannerVars, appVars, isScanning, other, parseCalls, scannedData, skipXor, pakoBuild, binaryData, decryptedData,
                 decompressedData, xorCalls>>

\* Step 4: const result = this.parseMadagascarFormat(decompressedData); return result
Parse ==
  /\ pc = "step4"
  /\ parseMadagascarFormat(decompressedData).ok
  /\ result' = parseMadagascarFormat(decompressedData).result
  /\ parseCalls' = parseCalls + 1
  /\ pc' = "returned"
  /\ UNCHANGED <<scannerVars, appVars, isScanning, other, scannedData, skipXor, pakoBuild, binaryData, decryptedData,
                 decompressedData, xorCalls, decompressCalls>>

\* step 4 whose throw leaves the call without passing the catch block
ParseThrowsEscapes ==
  /\ pc = "step4"
  /\ ~parseMadagascarFormat(decompressedData).ok
  /\ parseCalls' = parseCalls + 1
  /\ pc' = "thrown"
  /\ UNCHANGED <<scannerVars, appVars, isScanning, other, scannedData, skipXor, pakoBuild, binaryData, decryptedData,
                 decompressedData, result, xorCalls, decompressCalls>>

ParseThrows ==
  /\ pc = "step4"
  /\ ~parseMadagascarFormat(decompressedData).ok
  /\ parseCalls' = parseCalls + 1
  /\ Catch(parseMadagascarFormat(decompressedData).error)
  /\ UNCHANGED <<scannerVars, appVars, isScanning, other, scannedData, skipXor, pakoBuild, binaryData, decryptedData,
                 decompressedData, xorCalls, decompressCalls>>

Next ==
  \/ Normalize
  \/ NormalizeThrows
  \/ Decrypt
  \/ SkipDecrypt
  \/ Decompress
  \/ DecompressThrows
  \/ DecompressUndefined
  \/ Parse
  \/ ParseThrows

Spec == Init /\ [][Next]_vars

(***************************************************************************)
(* Two calls of decodeBarcodeData under way at once, their steps in any    *)
(* order.  The first call is the one of the variables above, the second    *)
(* lives in the record other.                                              *)
(***************************************************************************)
CallInputs ==
  {EncodeSample(KnownSample), EncodePlain(KnownSample),
   T(<<" ", "a", "a", "a">>), T(<<"a", "a">>),
   ToHex(Fill(MinReadableLength + 1)), ToHex(Deflate(ShortText)),
   ToHex(<<1>> \o Deflate(FiveText)),
   ToHex(Take(Deflate(FiveText), Len(Deflate(FiveText)) - 2))}

NewCall(data, skip) ==
  [pc |-> "step1", scannedData |-> data, skipXor |-> skip, binaryData |-> <<>>,
   decryptedData |-> <<>>, decompressedData |-> <<>>, result |-> NoResult]

Returned(call, value) == [call EXCEPT !.pc = "returned", !.result = value]

\* a second call whose step 2 takes the buffer the first call left
CallStepShared(call, build) ==
  CASE call.pc = "step1" ->
         IF detectAndConvertToBinary(call.scannedData).ok
           THEN [call EXCEPT !.pc = "step2",
                             !.binaryData = detectAndConvertToBinary(call.scannedData).bytes]
         ELSE Returned(call, FailureResult(HexError))
    [] call.pc = "step2" ->
         [call EXCEPT !.pc = "step3",
                      !.decryptedData = IF call.skipXor THEN binaryData
                                        ELSE staticDecrypt(binaryData)]
    [] call.pc = "step3" ->
         LET r == advancedDecompress(call.decryptedData, build)
         IN IF r.outcome = "value"
              THEN [call EXCEPT !.pc = "step4", !.decompressedData = r.bytes]
            ELSE IF r.outcome = "undefined" THEN Returned(call, FailureResult(UndefinedError))
            ELSE Returned(call, FailureResult(DecompressError))
    [] call.pc = "step4" ->
         LET r == parseMadagascarFormat(call.decompressedData)
         IN IF r.ok THEN Returned(call, r.result) ELSE Returned(call, FailureResult(r.error))

\* the next step of a call held in a record: the steps of decodeBarcodeData
CallStep(call, build) ==
  CASE call.pc = "step1" ->
         IF detectAndConvertToBinary(call.scannedData).ok
           THEN [call EXCEPT !.pc = "step2",
                             !.binaryData = detectAndConvertToBinary(call.scannedData).bytes]
         ELSE Returned(call, FailureResult(HexError))
    [] call.pc = "step2" ->
         [call EXCEPT !.pc = "step3",
                      !.decryptedData = IF call.skipXor THEN call.binaryData
                                        ELSE staticDecrypt(call.binaryData)]
    [] call.pc = "step3" ->
         LET r == advancedDecompress(call.decryptedData, build)
         IN IF r.outcome = "value"
              THEN [call EXCEPT !.pc = "step4", !.decompressedData = r.bytes]
            ELSE IF r.outcome = "undefined" THEN Returned(call, FailureResult(UndefinedError))
            ELSE Returned(call, FailureResult(DecompressError))
    [] call.pc = "step4" ->
         LET r == parseMadagascarFormat(call.decompressedData)
         IN IF r.ok THEN Returned(call, r.result) ELSE Returned(call, FailureResult(r.error))

InitCalls ==
  /\ scannedData \in CallInputs
  /\ skipXor \in BOOLEAN
  /\ pakoBuild \in {"pako1", "pako2"}
  /\ pc = "step1"
  /\ binaryData = <<>>
  /\ decryptedData = <<>>
  /\ decompressedData = <<>>
  /\ result = NoResult
  /\ xorCalls = 0
  /\ decompressCalls = 0
  /\ parseCalls = 0
  /\ other \in {NewCall(data, skip) : data \in CallInputs, skip \in BOOLEAN}
  /\ component = "ImageScanner"
  /\ InitialScanner
  /\ InitialApp

\* the first call as a record
ThisCall ==
  [pc |-> pc, scannedData |-> scannedData, skipXor |-> skipXor, binaryData |-> binaryData,
   decryptedData |-> decryptedData, decompressedData |-> decompressedData, result |-> result]

\* a step of one of the two calls, the other left as it is
CallsStep ==
  \E first \in BOOLEAN :
    \E call \in {IF first THEN ThisCall ELSE other} :
      /\ call.pc \in {"step1", "step2", "step3", "step4"}
      /\ \E next \in {CallStep(call, pakoBuild)} :
           IF first
             THEN /\ pc' = next.pc
                  /\ binaryData' = next.binaryData
                  /\ decryptedData' = next.decryptedData
                  /\ decompressedData' = next.decompressedData
                  /\ result' = next.result
                  /\ xorCalls' = IF pc = "step2" /\ ~skipXor THEN xorCalls + 1 ELSE xorCalls
                  /\ decompressCalls' = IF pc = "step3" THEN decompressCalls + 1
                                        ELSE decompressCalls
                  /\ parseCalls' = IF pc = "step4" THEN parseCalls + 1 ELSE parseCalls
                  /\ UNCHANGED <<scannerVars, appVars, isScanning, scannedData, skipXor,
                                 pakoBuild, other>>
           ELSE /\ other' = next
                /\ UNCHANGED <<scannerVars, appVars, isScanning,
                               scannedData, skipXor, pakoBuild, pc, binaryData, decryptedData,
                               decompressedData, result, xorCalls, decompressCalls,
                               parseCalls>>

NextCalls == CallsStep

SpecCalls == InitCalls /\ [][NextCalls]_vars

(***************************************************************************)
(* One call run to its end.  The call is synchronous, so a step that can   *)
(* be taken is taken; the inputs are a few of each kind, one of them a     *)
(* buffer longer than the skip loop goes.                                  *)
(***************************************************************************)
RunInputs == CallInputs \cup {ToHex(Garbage(MaxSkipBytes + 1) \o Deflate(FiveText))}

InitRun ==
  /\ scannedData \in RunInputs
  /\ skipXor \in BOOLEAN
  /\ pakoBuild \in {"pako1", "pako2"}
  /\ pc = "step1"
  /\ binaryData = <<>>
  /\ decryptedData = <<>>
  /\ decompressedData = <<>>
  /\ result = NoResult
  /\ xorCalls = 0
  /\ decompressCalls = 0
  /\ parseCalls = 0
  /\ other = Idle
  /\ component = "ImageScanner"
  /\ InitialScanner
  /\ InitialApp

\* The statement the call stands at is executed: the position moves on.  The
\* call is synchronous and runs to completion, nothing suspends it.
Running == pc \in {"step1", "step2", "step3", "step4"}

Advance ==
  /\ Running
  /\ pc' \in {"step2", "step3", "step4", "returned"} \ {pc}

FairSpec == InitRun /\ [][Next]_vars /\ WF_pc(Advance)

\* Every buffer the model hands to inflate is one the zlib model covers: no
\* Huffman-coded block and no byte after the end of a stream.
InflateInputsModelled ==
  pc \in {"step3", "step4", "returned"} =>
    \A skipBytes \in 0..(Len(decryptedData) - 1) :
      (skipBytes = 0 \/ (skipBytes < MaxSkipBytes /\ decryptedData[skipBytes + 1] = ZlibHeaderByte))
        => InflateRun(Drop(decryptedData, skipBytes)).kind \in {"ok", "throw", "incomplete"}

(***************************************************************************)
(* The claims.                                                             *)
(***************************************************************************)
\* the call has returned the failure result made from this error
FailedWith(error) ==
  /\ pc = "returned"
  /\ ~result.success
  /\ result.error = error

\* the call has gone through step 2
PastStep2 ==
  \/ pc \in {"step3", "step4"}
  \/ (pc = "returned" /\ ~FailedWith(HexError))

\* YYYYMMDD as YYYY-MM-DD
IsoDate(d) == <<d[1], d[2], d[3], d[4], Hyphen, d[5], d[6], Hyphen, d[7], d[8]>>

\* the normalized form of a record: ISO dates, the lists split on ','
Normalized(R) ==
  [person_name |-> R[1],
   id_number |-> R[2],
   date_of_birth |-> IsoDate(R[3]),
   license_number |-> R[4],
   valid_from |-> IsoDate(R[5]),
   valid_to |-> IsoDate(R[6]),
   license_codes |-> IF R[7] = <<>> THEN <<>> ELSE Split(R[7], Comma),
   vehicle_restrictions |-> IF R[8] = <<>> THEN <<>> ELSE Split(R[8], Comma),
   driver_restrictions |-> IF R[9] = <<>> THEN <<>> ELSE Split(R[9], Comma),
   sex |-> R[10],
   country |-> "MG",
   format_version |-> "standardized_madagascar_v5"]

EncodedRecords == {<<EncodeSample(Serialize(R)), R>> : R \in Records}

\* C1: round trip.  Every record of the 9-field schema, serialized,
\* compressed, XORed with the key and decoded by decodeBarcodeData, comes back
\* as a success whose fields are the record's normalized form.
C1_RoundTrip ==
  \A p \in EncodedRecords :
    (pc = "returned" /\ ~skipXor /\ scannedData = p[1])
      => (result.success /\ result.license_data = Normalized(p[2]))

\* C2: the known sample decodes to success with person_name "John Doe",
\* date_of_birth 1980-01-15, valid_from 2020-01-01, valid_to 2025-01-01,
\* license_codes B and C, sex M and no image.
C2_KnownSample ==
  (pc = "returned" /\ ~skipXor /\ scannedData = EncodeSample(KnownSample))
    => /\ result.success
       /\ result.license_data.person_name = T(<<"J", "o", "h", "n", " ", "D", "o", "e">>)
       /\ result.license_data.date_of_birth
            = T(<<"1", "9", "8", "0", "-", "0", "1", "-", "1", "5">>)
       /\ result.license_data.valid_from
            = T(<<"2", "0", "2", "0", "-", "0", "1", "-", "0", "1">>)
       /\ result.license_data.valid_to
            = T(<<"2", "0", "2", "5", "-", "0", "1", "-", "0", "1">>)
       /\ result.license_data.license_codes = <<T(<<"B">>), T(<<"C">>)>>
       /\ result.license_data.sex = T(<<"M">>)
       /\ result.has_image = FALSE

C2_Witness ==
  /\ pc = "returned"
  /\ ~skipXor
  /\ scannedData = EncodeSample(KnownSample)
  /\ result.success

\* C3: the cipher stage is total, length-preserving and self-inverse: whatever
\* buffer step 1 produced, the empty one included, step 2 ran staticDecrypt
\* once, its output is as long as its input, and staticDecrypt of the output
\* is the input.
C3_CipherSelfInverse ==
  (PastStep2 /\ ~skipXor)
    => /\ xorCalls = 1
       /\ Len(decryptedData) = Len(binaryData)
       /\ staticDecrypt(decryptedData) = binaryData

C3_Witness ==
  /\ pc = "step3"
  /\ ~skipXor
  /\ binaryData = <<>>
  /\ decryptedData = <<>>

\* the key stream of the run: output byte i XOR input byte i
KeyStream(i) == Xor(decryptedData[i], binaryData[i])

C5_NormalizerNeverFails == ~FailedWith(HexError)

\* the bytes a text of hex digit pairs stands for
HexDecoding(t) == [k \in 1..(Len(t) \div 2) |-> 16 * HexVal(t[2 * k - 1]) + HexVal(t[2 * k])]

\* C6: first match wins in the order hex, base64, raw, decided on the
\* whitespace-stripped input: even-length hex text gives its hex decoding,
\* otherwise base64 text whose length is a multiple of 4 gives its base64
\* decoding, otherwise output byte i is the code of input character i modulo
\* 256, one byte per input character.
C6_FirstMatchWins ==
  (pc # "step1" /\ ~FailedWith(HexError))
    => LET stripped == Trim(scannedData)
       IN binaryData =
            IF HexRegexTest(stripped) /\ Len(stripped) % 2 = 0
              THEN HexDecoding(stripped)
            ELSE IF Base64RegexTest(stripped) /\ Len(stripped) % 4 = 0
              THEN Atob(stripped).str
            ELSE [i \in 1..Len(scannedData) |-> scannedData[i] % 256]

\* C7: with skipXor the buffer handed to decompression is the normalizer's
\* output and staticDecrypt is never called; without it staticDecrypt is
\* called exactly once; decompression runs at most once and nothing runs after
\* the call has returned, so a failed decode is not retried with the other
\* setting; and the result of a call with skipXor is the result of decoding
\* the XORed counterpart of the same buffer without skipXor.
C7_SkipCipher ==
  /\ PastStep2
       => /\ skipXor => (decryptedData = binaryData /\ xorCalls = 0)
          /\ ~skipXor => xorCalls = 1
  /\ decompressCalls <= 1
  /\ pc = "returned" => ~ENABLED Next
  /\ (pc = "returned" /\ skipXor /\ ~FailedWith(HexError))
       => result = decodeBarcodeData(ToHex(staticDecrypt(binaryData)), FALSE, pakoBuild)

\* the sample, compressed but not XORed, decoded with skipXor
C7_Witness ==
  /\ pc = "returned"
  /\ skipXor
  /\ scannedData = EncodePlain(KnownSample)
  /\ xorCalls = 0
  /\ result.success
  /\ result = decodeBarcodeData(EncodeSample(KnownSample), FALSE, pakoBuild)

\* step 3 has run and handed this buffer on to step 4
Handed(bytes) ==
  /\ decompressCalls = 1
  /\ ~FailedWith(DecompressError)
  /\ ~FailedWith(UndefinedError)
  /\ decompressedData = bytes

\* step 3 has run and ended with what this inflate call gave
HandedInflate(r) ==
  IF r.outcome = "value" THEN Handed(r.bytes) ELSE FailedWith(UndefinedError)

StandardThrows == Inflate(decryptedData, pakoBuild).outcome = "throw"

PatternMatches == FirstRecordMatch(ReadableText(decryptedData), FALSE).found

\* the skip offsets tried: below 50, inside the buffer, at a zlib header byte
TriedOffsets ==
  {k \in 0..49 : k < Len(decryptedData) /\ decryptedData[k + 1] = 120}

GoodOffsets ==
  {k \in TriedOffsets : Inflate(Drop(decryptedData, k), pakoBuild).outcome # "throw"}

\* C8: advancedDecompress returns the output of the first strategy that
\* succeeds, in the order standard inflate, record pattern on the printable
\* text, inflate from a skip offset, the printable text verbatim.
C8_StrategyOrder ==
  decompressCalls = 1
    => LET text == ReadableText(decryptedData)
           match == FirstRecordMatch(text, FALSE)
       IN /\ ~StandardThrows => HandedInflate(Inflate(decryptedData, pakoBuild))
          /\ (StandardThrows /\ PatternMatches)
               => Handed(TextEncode(IF IndexOf(text, IMG_SEPARATOR) # -1
                                      THEN text ELSE match.whole))
          /\ (StandardThrows /\ ~PatternMatches /\ GoodOffsets # {})
               => \E k \in GoodOffsets :
                    /\ \A j \in GoodOffsets : k <= j
                    /\ HandedInflate(Inflate(Drop(decryptedData, k), pakoBuild))
          /\ (StandardThrows /\ ~PatternMatches /\ GoodOffsets = {} /\ Len(text) > 20)
               => Handed(TextEncode(text))

\* the pattern's match was handed on although a skip offset inflates too
C8_Witness ==
  /\ pc = "step4"
  /\ StandardThrows
  /\ PatternMatches
  /\ GoodOffsets # {}
  /\ decompressedData = TextEncode(FirstRecordMatch(ReadableText(decryptedData), FALSE).whole)
  /\ \A k \in GoodOffsets :
       decompressedData # Inflate(Drop(decryptedData, k), pakoBuild).bytes

\* C9: advancedDecompress raises "All decompression methods failed" if and
\* only if standard inflate fails, the printable text has no record-pattern
\* match, no tried skip offset inflates, and the printable text is not longer
\* than 20 characters; when it is longer and the earlier strategies all fail,
\* the text is returned verbatim.
C9_FailsOnlyWhenExhausted ==
  decompressCalls = 1
    => LET text == ReadableText(decryptedData)
           exhausted == StandardThrows /\ ~PatternMatches /\ GoodOffsets = {}
       IN /\ FailedWith(DecompressError) <=> (exhausted /\ Len(text) <= 20)
          /\ (exhausted /\ Len(text) > 20) => Handed(TextEncode(text))

\* a printable text of exactly 20 characters was refused
C9_Witness ==
  /\ FailedWith(DecompressError)
  /\ decompressCalls = 1
  /\ Len(ReadableText(decryptedData)) = 20
  /\ TriedOffsets = {}

\* the parse error of a text with this many fields
FieldsError(count) ==
  [text |-> "Failed to parse license data: Error: Expected at least 5 fields in license data, got ",
   arg |-> count]

\* C10: when the text recovered by decompression has fewer than 5
\* pipe-delimited fields, decodeBarcodeData returns a failure result with the
\* parse error: the call returns, and not with a success.
C10_TooFewFields ==
  \A count \in 1..4 :
    (pc = "returned" /\ Handed(decompressedData)
       /\ Len(Split(TextDecode(decompressedData), Pipe)) = count)
      => /\ result # NoResult
         /\ ~result.success
         /\ result.license_data = NoLicenseData
         /\ \E n \in 1..4 : result.error = FieldsError(n)

C10_Witness ==
  /\ pc = "returned"
  /\ Handed(TextEncode(ShortText))
  /\ ~result.success
  /\ result.error = FieldsError(2)

\* the parser has run on what step 3 handed on
Parsed == pc = "returned" /\ parseCalls = 1

\* the licence text the parser works on: what stands before the image marker,
\* without null bytes, trimmed
LicenceText == CleanedStr(ImageSplit(decompressedData).licenseDataBytes)

LicenceFields == Split(LicenceText, Pipe)

\* field k of the licence text, empty when the text has fewer fields
FieldAt(k) == IF k <= Len(LicenceFields) THEN LicenceFields[k] ELSE <<>>

ListAt(k) == IF FieldAt(k) = <<>> THEN <<>> ELSE Split(FieldAt(k), Comma)

RecordMatches == FirstRecordMatch(LicenceText, TRUE).found

\* C11: a licence text of 5 to 8 fields that the record pattern does not
\* match is parsed as 9 fields, the present ones in order and the missing
\* trailing ones empty, and gives a success; with 5 fields or more the parser
\* never throws, whatever the fields hold.
C11_FieldPadding ==
  Parsed
    => /\ Len(LicenceFields) >= 5 => result.success
       /\ (Len(LicenceFields) \in 5..8 /\ ~RecordMatches)
            => /\ result.success
               /\ result.license_data.person_name = FieldAt(1)
               /\ result.license_data.id_number = FieldAt(2)
               /\ result.license_data.license_number = FieldAt(4)
               /\ result.license_data.license_codes = ListAt(6)
               /\ result.license_data.vehicle_restrictions = ListAt(7)
               /\ result.license_data.driver_restrictions = ListAt(8)
               /\ result.license_data.sex = FieldAt(9)

\* a text of six fields was parsed: codes present, restrictions and sex empty
C11_Witness ==
  /\ Parsed
  /\ Len(LicenceFields) = 6
  /\ ~RecordMatches
  /\ result.success
  /\ result.license_data.license_codes # <<>>
  /\ result.license_data.sex = <<>>

\* the date tokens of the licence text: field 3, and the first two parts of
\* field 5 around its hyphens (empty when the part is missing)
BirthToken == FieldAt(3)

FromToken == IF FieldAt(5) = <<>> THEN <<>> ELSE Split(FieldAt(5), Hyphen)[1]

ToToken ==
  IF FieldAt(5) = <<>> \/ Len(Split(FieldAt(5), Hyphen)) < 2 THEN <<>>
  ELSE Split(FieldAt(5), Hyphen)[2]

\* the parser took its fields from the split of the licence text
SplitParsed == Parsed /\ Len(LicenceFields) >= 5 /\ ~RecordMatches

\* C12: a date token whose length is not 8 characters, the empty token
\* included, appears in the result unchanged (date_of_birth, valid_from,
\* valid_to), and the decode does not fail over it.
C12_DatePassThrough ==
  SplitParsed
    => /\ result.success
       /\ Len(BirthToken) # 8 => result.license_data.date_of_birth = BirthToken
       /\ Len(FromToken) # 8 => result.license_data.valid_from = FromToken
       /\ Len(ToToken) # 8 => result.license_data.valid_to = ToToken

\* three short tokens came through: birth "1980", range "2020-1"
C12_Witness ==
  /\ SplitParsed
  /\ Len(BirthToken) = 4
  /\ Len(FromToken) = 4
  /\ Len(ToToken) = 1
  /\ result.license_data.date_of_birth = BirthToken
  /\ result.license_data.valid_from = FromToken
  /\ result.license_data.valid_to = ToToken

\* what the date rule gives for a token: ISO form for 8 ASCII digits, the
\* token itself otherwise
DateRule(token) ==
  IF Len(token) = 8 /\ AllDigits(token) THEN IsoDate(token) ELSE token

\* C13: a date token is reformatted to YYYY-MM-DD exactly when it is 8 ASCII
\* digits; every other token, an 8-character token with a non-digit included,
\* is returned unchanged.
C13_EightDigitsOnly ==
  SplitParsed
    => /\ result.license_data.date_of_birth = DateRule(BirthToken)
       /\ result.license_data.valid_from = DateRule(FromToken)
       /\ result.license_data.valid_to = DateRule(ToToken)

\* the bytes behind the first image marker of the buffer handed to the parser
BytesAfterMarker ==
  Drop(decompressedData, findBytes(decompressedData, TextEncode(IMG_SEPARATOR)) + 7)

HasMarker == findBytes(decompressedData, TextEncode(IMG_SEPARATOR)) # -1

\* C14: for the plaintext "A|B|C|D|E|F|G|H|M", the marker and image bytes
\* that begin FF D8 FF, the parser reports has_image, the format JPEG and as
\* image size the number of bytes behind the marker.
C14_ImageBoundary ==
  (Parsed /\ HasMarker
     /\ Take(decompressedData, Len(ImageRecord) + 7) = ImageRecord \o IMG_SEPARATOR
     /\ Len(BytesAfterMarker) >= 3
     /\ SubSeq(BytesAfterMarker, 1, 3) = <<255, 216, 255>>)
    => /\ result.success
       /\ result.has_image = TRUE
       /\ result.image_format = "JPEG"
       /\ result.image_size_bytes = Len(BytesAfterMarker)

\* the stage that failed in this call, if one did
NormalizationFailed == ~detectAndConvertToBinary(scannedData).ok

DecompressionFailed ==
  decompressCalls = 1 /\ advancedDecompress(decryptedData, pakoBuild).outcome # "value"

ParsingFailed == parseCalls = 1 /\ ~parseMadagascarFormat(decompressedData).ok

\* C15: a failure at any stage ends the decode with no partial record:
\* what decodeBarcodeData returns is a result, never an exception; a failed
\* normalization, decompression or parse gives
\* success=false, every failure result has an empty license_data,
\* has_image=false, the two sizes 0 and an error message, and the stages
\* after the failed one are not run.
C15_FailureAborts ==
  /\ pc # "returned" => result = NoResult
  /\ pc = "returned"
       => /\ result # NoResult
          /\ (NormalizationFailed \/ DecompressionFailed \/ ParsingFailed) => ~result.success
          /\ ~result.success
               => /\ result.license_data = NoLicenseData
                  /\ result.has_image = FALSE
                  /\ result.image_size_bytes = 0
                  /\ result.total_payload_size = 0
                  /\ result.error.text # ""
                  /\ NormalizationFailed \/ DecompressionFailed \/ ParsingFailed
          /\ NormalizationFailed => (xorCalls = 0 /\ decompressCalls = 0 /\ parseCalls = 0)
          /\ DecompressionFailed => parseCalls = 0

\* decompression failed and the call returned without running the parser
C15_Witness ==
  /\ pc = "returned"
  /\ DecompressionFailed
  /\ parseCalls = 0
  /\ result = FailureResult(DecompressError)

\* C16: decode calls are independent and deterministic: however the steps of
\* two calls interleave, each returns the result decodeBarcodeData gives for
\* its own arguments alone, and two calls with the same arguments return the
\* same result.
C16_CallsIndependent ==
  /\ pc = "returned" => result = decodeBarcodeData(scannedData, skipXor, pakoBuild)
  /\ other.pc = "returned"
       => other.result = decodeBarcodeData(other.scannedData, other.skipXor, pakoBuild)
  /\ (pc = "returned" /\ other.pc = "returned"
        /\ scannedData = other.scannedData /\ skipXor = other.skipXor)
       => result = other.result

\* both calls have returned, the first a success and the second a failure
C16_Witness ==
  /\ pc = "returned"
  /\ other.pc = "returned"
  /\ scannedData # other.scannedData
  /\ result.success
  /\ ~other.result.success

\* C17: every decode call terminates: the call eventually stands returned
\* with one result, success or failure, and keeps it; and the skip loop of
\* advancedDecompress makes at most 50 turns however long the buffer is.
C17_Terminates ==
  /\ <>[](pc = "returned" /\ result # NoResult)
  /\ [](pc = "returned" => "success" \in DOMAIN result)
  /\ [](SkipLoopTurns(decryptedData) <= 50)
  /\ [](pc = "step3" =>
          advancedDecompress(decryptedData, pakoBuild).outcome
            \in {"value", "throw", "undefined"})

\* a call returned whose buffer is longer than the skip loop goes and whose
\* skip loop ran to its end
C17_Witness ==
  /\ pc = "returned"
  /\ decompressCalls = 1
  /\ Len(decryptedData) > 50
  /\ StandardThrows
  /\ ~PatternMatches
  /\ GoodOffsets = {}

\* C18: the image is extracted without loss: when the decompressed buffer
\* holds the marker, the parsed result's image_size_bytes is the number of
\* bytes behind the first marker, and image_base64, decoded, is exactly those
\* bytes, whatever their values; with no byte behind the marker there is no
\* image field.
C18_ImageLossless ==
  (Parsed /\ HasMarker /\ result.success)
    => /\ result.has_image = TRUE
       /\ result.image_size_bytes = Len(BytesAfterMarker)
       /\ IF BytesAfterMarker = <<>>
            THEN "image_base64" \notin DOMAIN result
            ELSE /\ "image_base64" \in DOMAIN result
                 /\ Atob(result.image_base64) = [ok |-> TRUE, str |-> BytesAfterMarker]

\* what the byte at position i of the buffer adds to the printable text: a
\* printable byte adds itself; another byte adds one separator when it
\* follows a printable byte other than the separator, and, where atStart is
\* set, also when it is the first byte of the buffer; otherwise nothing
Contribution(data, i, atStart) ==
  IF IsReadableByte(data[i]) THEN <<data[i]>>
  ELSE IF i = 1 THEN (IF atStart THEN <<Pipe>> ELSE <<>>)
  ELSE IF IsReadableByte(data[i - 1]) /\ data[i - 1] # Pipe THEN <<Pipe>>
  ELSE <<>>

RECURSIVE Gathered(_, _, _, _)
Gathered(data, lo, hi, atStart) ==
  IF lo > hi THEN <<>>
  ELSE IF lo = hi THEN Contribution(data, lo, atStart)
  ELSE LET mid == (lo + hi) \div 2
       IN Gathered(data, lo, mid, atStart) \o Gathered(data, mid + 1, hi, atStart)

\* C19: the printable text of a buffer keeps every byte in 0x20-0x7E and
\* tab, LF, CR, in order, as its character; a run of other bytes adds exactly
\* one separator when it follows a printable byte other than the separator,
\* and none at the start of the buffer or behind a separator; and that text
\* is what the last fallback hands on.
C19_ReadableText ==
  (decompressCalls = 1 /\ StandardThrows)
    => LET text == Gathered(decryptedData, 1, Len(decryptedData), FALSE)
       IN /\ ReadableText(decryptedData) = text
          /\ (~PatternMatches /\ GoodOffsets = {} /\ Len(text) > 20)
               => Handed(TextEncode(text))

\* a buffer that begins with an unprintable byte was handed on as its
\* printable text, which begins with no separator
C19_Witness ==
  /\ pc = "step4"
  /\ decompressCalls = 1
  /\ StandardThrows
  /\ ~IsReadableByte(decryptedData[1])
  /\ decompressedData = TextEncode(ReadableText(decryptedData))
  /\ decompressedData[1] # Pipe

\* C19 as stated: a run of unprintable bytes at the start of the buffer adds
\* a separator as well
C19_EveryRunDelimits ==
  (decompressCalls = 1 /\ StandardThrows)
    => ReadableText(decryptedData) = Gathered(decryptedData, 1, Len(decryptedData), TRUE)

\* the offsets of the buffer at which a zlib stream inflates
StreamOffsets ==
  {k \in 0..(Len(decryptedData) - 1) :
     Inflate(Drop(decryptedData, k), pakoBuild).outcome = "value"}

\* C20: when standard inflate failed and the pattern found nothing, the skip
\* loop tries the offsets below 50 and below the buffer length in ascending
\* order, only those whose byte is 0x78, and step 3 ends with what inflate
\* gave at the lowest offset that did not throw; when no tried offset
\* inflates, the loop recovers nothing, whatever stream lies at an offset it
\* did not try, and step 3 ends with the printable text or with the error.
C20_PartialRetry ==
  (decompressCalls = 1 /\ StandardThrows /\ ~PatternMatches)
    => LET text == ReadableText(decryptedData)
       IN /\ TriedOffsets \subseteq 0..(MaxSkipBytes - 1)
          /\ \A k \in GoodOffsets :
               (\A j \in GoodOffsets : k <= j)
                 => HandedInflate(Inflate(Drop(decryptedData, k), pakoBuild))
          /\ GoodOffsets = {}
               => IF Len(text) > 20 THEN Handed(TextEncode(text))
                  ELSE FailedWith(DecompressError)

\* a stream that begins right behind the last offset the loop tries was not
\* recovered: the call failed
C20_Witness ==
  /\ pc = "returned"
  /\ decompressCalls = 1
  /\ StandardThrows
  /\ ~PatternMatches
  /\ MaxSkipBytes \in StreamOffsets
  /\ GoodOffsets = {}
  /\ FailedWith(DecompressError)

\* C21: when standard inflate failed and the printable text holds a match of
\* the record pattern, step 3 hands on the whole printable text if that text
\* holds the marker, and otherwise the leftmost match alone, without the
\* text before and after it.
C21_PatternFallback ==
  (decompressCalls = 1 /\ StandardThrows /\ PatternMatches)
    => LET text == ReadableText(decryptedData)
           starts == {s \in 1..Len(text) : RecordPatternAt(text, s, FALSE).found}
           first == CHOOSE s \in starts : \A t \in starts : s <= t
           match == RecordPatternAt(text, first, FALSE).whole
       IN /\ match = SubSeq(text, first, first + Len(match) - 1)
          /\ IF IndexOf(text, IMG_SEPARATOR) # -1 THEN Handed(TextEncode(text))
             ELSE Handed(TextEncode(match))

\* the printable text holds the marker and more than the match, and all of
\* it was handed on
C21_Witness ==
  /\ pc = "step4"
  /\ StandardThrows
  /\ PatternMatches
  /\ IndexOf(ReadableText(decryptedData), IMG_SEPARATOR) # -1
  /\ decompressedData = TextEncode(ReadableText(decryptedData))
  /\ Take(decompressedData, 2) = T(<<"a", "b">>)
  /\ Len(decompressedData)
       > Len(FirstRecordMatch(ReadableText(decryptedData), FALSE).whole) + 2

\* the licence segment and the image segment the marker cuts the buffer into
BytesBeforeMarker ==
  IF HasMarker
    THEN Take(decompressedData, findBytes(decompressedData, TextEncode(IMG_SEPARATOR)))
  ELSE decompressedData

\* the fields were taken from the bytes before the first marker, or from
\* the whole buffer when there is no marker
FieldsFromSegment ==
  LET extracted == ExtractFields(CleanedStr(BytesBeforeMarker))
  IN /\ extracted.ok
     /\ result.license_data = BuildLicenseData(extracted.fields)

\* C22: has_image is true exactly when the marker occurs in the
\* decompressed buffer; with a marker the fields come from the content
\* before its first occurrence and the image is everything after it; with
\* none the fields come from the whole buffer and image_size_bytes is 0.
C22_ImageSplit ==
  (Parsed /\ result.success)
    => /\ result.has_image = HasMarker
       /\ FieldsFromSegment
       /\ ~HasMarker => result.image_size_bytes = 0
       /\ HasMarker
            => /\ result.image_size_bytes = Len(BytesAfterMarker)
               /\ BytesAfterMarker # <<>>
                    => Atob(result.image_base64).str = BytesAfterMarker

\* the starts of the matches of the parser's pattern in the licence text
MatchStarts ==
  {s \in 1..Len(LicenceText) : RecordPatternAt(LicenceText, s, TRUE).found}

\* C23: when the cleaned licence text holds a match of the record pattern,
\* the nine fields are the groups of the leftmost match and the text outside
\* the match is ignored; the split at the pipes, with its minimum of 5
\* fields, is used only when there is no match.
C23_PatternPath ==
  Parsed
    => IF MatchStarts # {}
         THEN LET first == CHOOSE s \in MatchStarts : \A t \in MatchStarts : s <= t
                  match == RecordPatternAt(LicenceText, first, TRUE)
              IN /\ result.success
                 /\ Len(match.groups) = 9
                 /\ result.license_data = BuildLicenseData(match.groups)
                 /\ result.license_data.person_name
                      = SubSeq(LicenceText, first, first + Len(match.groups[1]) - 1)
                 /\ result.license_data.sex = <<LicenceText[first + Len(match.whole) - 1]>>
       ELSE IF Len(LicenceFields) < 5
         THEN FailedWith(FieldsError(Len(LicenceFields)))
       ELSE /\ result.success
            /\ result.license_data = BuildLicenseData(PadFields(LicenceFields))

\* a record with text before and behind it was parsed by the pattern: the
\* text outside the match is in no field
C23_Witness ==
  /\ Parsed
  /\ LicenceText = WrappedText
  /\ result.success
  /\ result.license_data.person_name = T(<<"A">>)
  /\ result.license_data.sex = T(<<"M">>)
  /\ result.license_data # BuildLicenseData(PadFields(LicenceFields))

\* the format the sniffing order gives for these image bytes
SniffedFormat(bytes) ==
  IF Len(bytes) >= 3 /\ SubSeq(bytes, 1, 3) = <<255, 216, 255>> THEN "JPEG"
  ELSE IF Len(bytes) >= 4 /\ SubSeq(bytes, 1, 4) = <<137, 80, 78, 71>> THEN "PNG"
  ELSE IF Len(bytes) >= 4 /\ SubSeq(bytes, 1, 4) = T(<<"J", "F", "I", "F">>) THEN "JPEG"
  ELSE "Unknown"

\* C24: the image format is sniffed only when an image segment is present
\* and not empty, and in this order: the first three bytes FF D8 FF give
\* JPEG, else the first four bytes 89 50 4E 47 give PNG, else leading bytes
\* that read JFIF give JPEG, else Unknown.
C24_FormatSniffing ==
  (Parsed /\ result.success)
    => /\ "image_format" \in DOMAIN result <=> (HasMarker /\ BytesAfterMarker # <<>>)
       /\ "image_format" \in DOMAIN result
            => result.image_format = SniffedFormat(BytesAfterMarker)

\* the number of separators in a text
PipeCount(text) == Cardinality({i \in 1..Len(text) : text[i] = Pipe})

\* C25: noise can decode as a success: when inflate throws at offset 0 and
\* at every tried skip offset, and the printable text of the buffer holds no
\* marker, is longer than 20 characters and holds at least four separators
\* (literal or placeholder), decodeBarcodeData returns success=true with the
\* fields taken from that text.
C25_NoiseDecodes ==
  LET text == Gathered(decryptedData, 1, Len(decryptedData), FALSE)
  IN (/\ pc = "returned"
      /\ decompressCalls = 1
      /\ StandardThrows
      /\ GoodOffsets = {}
      /\ IndexOf(text, IMG_SEPARATOR) = -1
      /\ Len(text) > 20
      /\ PipeCount(text) >= 4)
       => /\ result.success
          /\ parseCalls = 1
          /\ IndexOf(text, decompressedData) # -1
          /\ result.has_image = FALSE
          /\ result.license_data
               = BuildLicenseData(ExtractFields(CleanedStr(decompressedData)).fields)

\* a buffer that is no stream and no record, with unprintable bytes in four
\* places, decoded as a licence
C25_Witness ==
  /\ pc = "returned"
  /\ decompressCalls = 1
  /\ StandardThrows
  /\ ~PatternMatches
  /\ GoodOffsets = {}
  /\ PipeCount(decryptedData) = 0
  /\ PipeCount(decompressedData) = 4
  /\ result.success
  /\ result.license_data.person_name = Fill(5)
  /\ result.license_data.license_number = Fill(5)

\* C26: in every success result of parseMadagascarFormat, has_image=false
\* implies image_size_bytes=0; image_base64 and image_format are present,
\* both, exactly when has_image is true and image_size_bytes > 0 (a marker
\* with nothing behind it gives has_image=true and neither field);
\* total_payload_size is the length of the decompressed buffer; and with
\* has_image true, image_size_bytes + 7 <= total_payload_size.
C26_ResultInvariants ==
  (Parsed /\ result.success)
    => LET imaged == result.has_image /\ result.image_size_bytes > 0
       IN /\ ~result.has_image => result.image_size_bytes = 0
          /\ "image_base64" \in DOMAIN result <=> imaged
          /\ "image_format" \in DOMAIN result <=> imaged
          /\ imaged => Len(Atob(result.image_base64).str) = result.image_size_bytes
          /\ result.total_payload_size = Len(decompressedData)
          /\ result.has_image => result.image_size_bytes + 7 <= result.total_payload_size

\* a marker with nothing behind it: has_image is true and the result has
\* no image field
C26_Witness ==
  /\ Parsed
  /\ result.success
  /\ decompressedData = ImageRecord \o IMG_SEPARATOR
  /\ result.has_image = TRUE
  /\ result.image_size_bytes = 0
  /\ "image_base64" \notin DOMAIN result
  /\ "image_format" \notin DOMAIN result
  /\ result.total_payload_size = Len(ImageRecord) + 7


(***************************************************************************)
(* The scanner components.  BarcodeScanner.tsx holds two versions of the   *)
(* component: the first keeps an inner scanLoop that reschedules itself    *)
(* (BarcodeScanner), the second reschedules startScanning itself           *)
(* (BarcodeScannerRetry).  AlternativeScanner keeps an inner scanLoop and  *)
(* makes a new reader for each scan.  A loop is a chain of scanLoop (or    *)
(* startScanning) runs: it awaits a decode (at = "decode") or sits on a    *)
(* timer (at = "timer"); id is the session that began it.  What the ZXing  *)
(* reader does with the camera is outside the repository: a decode under   *)
(* way resolves with a text, resolves without one, or rejects.             *)
(***************************************************************************)
MaxSessions == 3

\* no call of decodeBarcodeData is under way
NoCall ==
  /\ scannedData = <<>>
  /\ skipXor = FALSE
  /\ pc = "idle"
  /\ binaryData = <<>>
  /\ decryptedData = <<>>
  /\ decompressedData = <<>>
  /\ result = NoResult
  /\ xorCalls = 0
  /\ decompressCalls = 0
  /\ parseCalls = 0
  /\ other = Idle

\* a scanner is mounted in the scanning view, its camera running
InitScanner ==
  /\ component \in {"BarcodeScanner", "BarcodeScannerRetry", "AlternativeScanner"}
  /\ InitialScanner
  /\ appState = "scanning"
  /\ scannerType = IF component = "AlternativeScanner" THEN "alternative" ELSE "original"
  /\ isScanning = FALSE
  /\ decodedResult = Null
  /\ manualInput = <<>>
  /\ isDecoding = FALSE
  /\ pakoBuild = "pako1"
  /\ NoCall

\* stopScanning(), ls being the loops that are left when it is called.
\* readerRef.current.reset() of BarcodeScanner's stopScanning gives up the
\* decode under way on the one reader: it delivers no text any more.
\* AlternativeScanner's stopScanning resets nothing: each scanWithZXing has a
\* reader of its own, which nothing but the scan itself holds.
stopScanning(ls) ==
  /\ scanningRef' = FALSE
  /\ isScanning' = FALSE
  /\ loops' = IF component = "AlternativeScanner" THEN ls
              ELSE {[l EXCEPT !.reset = (l.at = "decode")] : l \in ls}

\* startScanning(), ls being the loops other than the one that calls it: the
\* guard returns when scanningRef.current is set; otherwise scanning is
\* switched on and the first decode is awaited
startScanning(ls) ==
  IF scanningRef
    THEN /\ loops' = ls
         /\ UNCHANGED <<scanningRef, isScanning, sessions>>
  ELSE /\ scanningRef' = TRUE
       /\ isScanning' = TRUE
       /\ sessions' = sessions + 1
       /\ loops' = ls \cup {[id |-> sessions + 1, at |-> "decode", reset |-> FALSE]}

\* scanLoop() run from its timer by the loop l: it returns when scanning is
\* off, and awaits the next decode otherwise
scanLoop(l, ls) ==
  IF scanningRef THEN loops' = ls \cup {[l EXCEPT !.at = "decode", !.reset = FALSE]}
  ELSE loops' = ls

\* what a loop does when its decode gave no text and it asks to go on:
\* if (scanningRef.current) setTimeout(...)
Reschedule(l, ls) ==
  IF scanningRef THEN loops' = ls \cup {[l EXCEPT !.at = "timer", !.reset = FALSE]}
  ELSE loops' = ls

\* the Start button, or the effect on the isScanning prop
Start ==
  /\ ~scanningRef
  /\ sessions < MaxSessions
  /\ startScanning(loops)
  /\ UNCHANGED <<component, onScanLog, callVars, appVars>>

\* the Stop button, the effect on the isScanning prop, or the unmount
Stop ==
  /\ stopScanning(loops)
  /\ UNCHANGED <<component, onScanLog, sessions, callVars, appVars>>

\* a decode resolves with a text: onScan(text); stopScanning()
DecodeResolves ==
  \E l \in loops :
    /\ l.at = "decode"
    /\ ~l.reset
    /\ onScanLog' = Append(onScanLog,
                           [scanning |-> scanningRef, session |-> sessions, loop |-> l.id])
    /\ stopScanning(loops \ {l})
    /\ UNCHANGED <<component, sessions, callVars, appVars>>

\* a decode resolves without a text.  The two BarcodeScanner versions fall
\* out of the try block and schedule nothing; AlternativeScanner goes on.
DecodeEmpty ==
  \E l \in loops :
    /\ l.at = "decode"
    /\ ~l.reset
    /\ IF component = "AlternativeScanner" THEN Reschedule(l, loops \ {l})
       ELSE loops' = loops \ {l}
    /\ UNCHANGED <<component, scanningRef, isScanning, onScanLog, sessions, callVars, appVars>>

\* a decode rejects.  In BarcodeScanner the catch block reschedules; in
\* AlternativeScanner scanWithZXing catches the error and returns null, and
\* the loop goes on as after any scan without a text.
DecodeRejects ==
  \E l \in loops :
    /\ l.at = "decode"
    /\ Reschedule(l, loops \ {l})
    /\ UNCHANGED <<component, scanningRef, isScanning, onScanLog, sessions, callVars, appVars>>

\* a timer fires: setTimeout(startScanning, 100) in BarcodeScannerRetry,
\* setTimeout(scanLoop, ...) in the two others
TimerFires ==
  \E l \in loops :
    /\ l.at = "timer"
    /\ IF component = "BarcodeScannerRetry"
         THEN /\ scanningRef \/ sessions < MaxSessions
              /\ startScanning(loops \ {l})
       ELSE /\ scanLoop(l, loops \ {l})
            /\ UNCHANGED <<scanningRef, isScanning, sessions>>
    /\ UNCHANGED <<component, onScanLog, callVars, appVars>>

NextScanner ==
  \/ Start
  \/ Stop
  \/ DecodeResolves
  \/ DecodeEmpty
  \/ DecodeRejects
  \/ TimerFires

SpecScanner == InitScanner /\ [][NextScanner]_vars

\* C27: in BarcodeScanner and AlternativeScanner at most one scan loop is
\* under way at any time, whatever the order of startScanning, stopScanning,
\* the ends of the decodes and the timers: never more than one iteration is
\* awaiting its decode or scheduled.
C27_OneScanLoop ==
  component \in {"BarcodeScanner", "AlternativeScanner"} => Cardinality(loops) <= 1

\* C28: no result is delivered after a stop, and a session delivers at most
\* one: every call of onScan is made while scanningRef.current is set, and
\* no two calls are made in the same session.
C28_NoScanAfterStop ==
  component \in {"BarcodeScanner", "AlternativeScanner"}
    => /\ \A i \in 1..Len(onScanLog) : onScanLog[i].scanning
       /\ \A i, j \in 1..Len(onScanLog) :
            onScanLog[i].session = onScanLog[j].session => i = j

\* C29: in the version of BarcodeScanner whose startScanning reschedules
\* itself, the run of startScanning that a rejected decode scheduled starts
\* a new decode attempt when scanning is still on.
C29_RetryStartsDecode ==
  [][(/\ component = "BarcodeScannerRetry"
      /\ scanningRef
      /\ \E l \in loops : l.at = "timer" /\ l \notin loops')
     => \E n \in loops' \ loops : n.at = "decode"]_vars


(***************************************************************************)
(* App.  A handler runs to its end before anything else happens (there is  *)
(* no await in handleScan), so each is one action.  The scanner of the     *)
(* scanning view is seen from App's side: it calls onScan (handleScan) and *)
(* onScanningChange (setIsScanning), and its unmount stops it.             *)
(* decodeBarcodeData catches what it throws and returns a result with      *)
(* success false, so the catch blocks of the two handlers, which store a   *)
(* result of the same shape, are never entered.                            *)
(***************************************************************************)
\* what a scanner or the diagnostic panel hands to onScan
ScanInputs ==
  {EncodeSample(KnownSample), EncodePlain(KnownSample), T(<<"a", "a">>),
   ToHex(Take(Deflate(FiveText), Len(Deflate(FiveText)) - 2))}

\* what is typed into the manual input box
ManualInputs ==
  {<<>>, T(<<" ">>), T(<<" ">>) \o EncodeSample(KnownSample) \o T(<<" ">>), T(<<"a", "b", "c">>)}

\* a call of decodeBarcodeData run from where it stands to its return
RECURSIVE RunCall(_, _)
RunCall(call, build) ==
  IF call.pc = "returned" THEN call ELSE RunCall(CallStep(call, build), build)

\* const decoder = new MadagascarLicenseDecoder(), and what its
\* decodeBarcodeData(text) returns for the texts App hands to it
decoder ==
  [data \in ScanInputs \cup {Trim(text) : text \in ManualInputs} |->
     [build \in {"pako1", "pako2"} |-> RunCall(NewCall(data, FALSE), build).result]]

InitApp ==
  /\ InitialApp
  /\ component = "ImageScanner"
  /\ InitialScanner
  /\ pakoBuild \in {"pako1", "pako2"}
  /\ NoCall

\* handleScan whose finally block leaves isScanning as it is
handleScanKeepsScanning(decode) ==
  \E data \in ScanInputs :
    /\ decodedResult' = decode[data][pakoBuild]
    /\ appState' = "results"
    /\ isDecoding' = FALSE
    /\ UNCHANGED <<isScanning, scannerType, manualInput, callVars, scannerVars>>

\* The handlers take the decoder as decode: decode[text] is what
\* decoder.decodeBarcodeData(text) returns, for each build of pako.
\* handleScan(scannedData): setIsDecoding(true); the decode;
\* setDecodedResult; setAppState('results'); finally setIsDecoding(false) and
\* setIsScanning(false)
handleScan(decode) ==
  \E data \in ScanInputs :
    /\ decodedResult' = decode[data][pakoBuild]
    /\ appState' = "results"
    /\ isDecoding' = FALSE
    /\ isScanning' = FALSE
    /\ UNCHANGED <<scannerType, manualInput, callVars, scannerVars>>

\* handleManualDecode(), from the button of the manual view
handleManualDecode(decode) ==
  /\ appState = "manual"
  /\ Trim(manualInput) # <<>>
  /\ decodedResult' = decode[Trim(manualInput)][pakoBuild]
  /\ appState' = "results"
  /\ isDecoding' = FALSE
  /\ UNCHANGED <<isScanning, scannerType, manualInput, callVars, scannerVars>>

\* handleClear(), the onClear of LicenseResults
handleClear ==
  /\ appState = "results"
  /\ decodedResult # Null
  /\ decodedResult' = Null
  /\ manualInput' = <<>>
  /\ appState' = "scanning"
  /\ UNCHANGED <<isScanning, isDecoding, scannerType, callVars, scannerVars>>

\* the buttons that switch the view: to the manual input or the diagnostics
\* from the scanning view, and back.  Leaving the scanning view unmounts the
\* scanner, whose cleanup calls stopScanning and so onScanningChange(false).
setAppState ==
  \E view \in {"scanning", "manual", "diagnostics"} :
    /\ IF view = "scanning" THEN appState \in {"manual", "diagnostics"}
       ELSE appState = "scanning"
    /\ appState' = view
    /\ isScanning' = FALSE
    /\ UNCHANGED <<decodedResult, manualInput, isDecoding, scannerType, callVars, scannerVars>>

\* the three scanner buttons of the scanning view; the scanner that was
\* shown is unmounted
setScannerType ==
  \E type \in {"original", "alternative", "image"} \ {scannerType} :
    /\ appState = "scanning"
    /\ scannerType' = type
    /\ isScanning' = FALSE
    /\ UNCHANGED <<appState, decodedResult, manualInput, isDecoding, callVars, scannerVars>>

\* onChange of the text area of the manual view
setManualInput ==
  \E text \in ManualInputs \ {manualInput} :
    /\ appState = "manual"
    /\ manualInput' = text
    /\ UNCHANGED <<appState, decodedResult, isDecoding, isScanning, scannerType,
                   callVars, scannerVars>>

\* onScanningChange of BarcodeScanner and AlternativeScanner: scanning was
\* switched on or off
setIsScanning ==
  /\ appState = "scanning"
  /\ scannerType # "image"
  /\ isScanning' = ~isScanning
  /\ UNCHANGED <<appVars, callVars, scannerVars>>

NextApp ==
  \E decode \in {decoder} :
    \/ handleScan(decode)
    \/ handleManualDecode(decode)
    \/ handleClear
    \/ setAppState
    \/ setScannerType
    \/ setManualInput
    \/ setIsScanning

SpecApp == InitApp /\ [][NextApp]_vars

\* C30: in App the results view always has a result to show (appState =
\* 'results' implies decodedResult is not null), and every decode that
\* stores a result leaves appState = 'results', isDecoding = false and, when
\* it came from a scan, isScanning = false, whether the decode succeeded or
\* failed.
C30_AppResults ==
  /\ [](appState = "results" => decodedResult # Null)
  /\ [](~isDecoding)
  /\ [][decodedResult' # decodedResult /\ decodedResult' # Null
          => appState' = "results" /\ ~isDecoding' /\ ~isScanning']_vars

\* a failed decode is on show, after a scan that was made while scanning
C30_Witness ==
  /\ appState = "results"
  /\ decodedResult # Null
  /\ ~decodedResult.success
  /\ scannerType # "image"

====
